---- MODULE Spec2Model ----
(***************************************************************************)
(* A model of the processing core of asciidoc.py: the attribute evaluator  *)
(* (subs_attrs), the layered input reader (Reader1 / Reader), the safe     *)
(* mode gates (system, filter_lines, safe_filename) and the section driver *)
(* (Title.getnumber, Section.setlevel / savetag / gen_id / translate).     *)
(*                                                                         *)
(* Text is modelled as sequences of one-character strings, so that the     *)
(* scanning, formatting and normalising code is modelled by what it does.  *)
(***************************************************************************)
EXTENDS Integers, Sequences, FiniteSets, TLC

VARIABLES
    \* ---- section driver (class Title, class Section, class Document)
    endtags,            \* Section.endtags: stack of <<level, section serial>>
    ids,                \* Section.ids: list of already used ids
    section_numbers,    \* Title.section_numbers: counter per level 0..4
    doc_level,          \* document.level
    idprefix,           \* document.attributes.get('idprefix'): None or text
    out,                \* what writer.write() has been given, in order
    doc_done,           \* Document.translate() has returned
    last,               \* the title Section.translate processed last
    \* ---- attribute evaluator (subs_attrs)
    attrs,              \* the attribute map: name -> None or text
    pieces,             \* the references and literals the line is made of
    line,               \* the line given to subs_attrs
    subst,              \* what subs_attrs did with the line, once called
    \* ---- input reader (class Reader1, class Reader) and safe mode
    files,              \* the file system: path -> lines
    infile,             \* document.infile
    safe_mode,          \* document.safe
    reader,             \* the fields of the Reader object
    opened,             \* the paths given to open() for reading, in order
    nopen,              \* the number of file objects open
    has_errors,         \* document.has_errors
    executed,           \* the host evaluations and subprocesses run, in order
    exception,          \* the exception that ended the run, if any
    returned,           \* the lines reader.read() has returned, in order
    unclosed,           \* false conditionals entered and not yet closed by an endif
    lastop,             \* the last operation that could run host code
    phase,              \* "start", "reading", "eof" or "failed"
    \* ---- pending block attributes (class AttributeList, class BlockTitle)
    alist,              \* AttributeList.attrs: attribute name -> text
    btitle,             \* BlockTitle.title: None or text
    element,            \* the block element translated last, with what it was given
    \* ---- document attributes and the run (class Document, asciidoc())
    doc_attributes,     \* document.attributes: name -> text or None
    conf_attrs,         \* config.conf_attrs
    cmd_attrs,          \* config.cmd_attrs
    outfile,            \* document.outfile: None or a path
    stage,              \* how far asciidoc() has got
    \* ---- callouts (class CalloutMap)
    comap,              \* calloutmap.comap: list index -> callout indexes
    calloutindex,       \* calloutmap.calloutindex
    listnumber,         \* calloutmap.listnumber
    observed,           \* the callout indexes add() returned since the last list close
    closed,             \* the callout map and the item count at the last list close
    callouts,           \* the calls of add, calloutids and listclose, with what they returned
    isempty,            \* isempty of the Section.translate_body that is running
    doctype,            \* document.doctype
    backend,            \* document.backend
    diagnostics,        \* the messages of Document.translate and Section so far
    \* ---- the end of the run (asciidoc(), main())
    has_warnings,       \* document.has_warnings
    on_disk,            \* the output file exists on disk
    exit_code,          \* the exit code of the process, once stage is "exited"
    \* ---- tables (Table)
    table,              \* the source lines of the last table, its columns and rows
    \* ---- the lexer (Lex)
    prev_element,       \* Lex.prev_element
    prev_cursor,        \* Lex.prev_cursor
    lex,                \* the last answer of Lex.next(), and whether it was cached
    call,               \* the last read_ahead or read_until: the reader before and after
    \* ---- the configuration (Config)
    specialchars,       \* config.specialchars
    special,            \* the last text of subs_specialchars, after one pass and two
    sections,           \* config.sections: the names in order, and their lines
    expanded            \* config.sections after each expand_all_templates so far

\* Python's None beside a text value: an attribute, an id or a result that
\* is either undefined or a text
None == [def |-> FALSE, val |-> <<>>]
Some(v) == [def |-> TRUE, val |-> v]

\* ------------------------------------------------------------------------
\* Text helpers
\* ------------------------------------------------------------------------

Digits == <<"0", "1", "2", "3", "4", "5", "6", "7", "8", "9">>

\* '%d' % n for n >= 0
RECURSIVE IntToStr(_)
IntToStr(n) ==
    IF n < 10 THEN <<Digits[n + 1]>>
    ELSE IntToStr(n \div 10) \o <<Digits[(n % 10) + 1]>>

LowerLetters == {"a", "b", "c", "e", "l", "q", "s", "u", "v", "x", "y", "z"}
UpperLetters == {"A", "B"}
DigitChars == {Digits[i] : i \in 1..10}

\* [a-zA-Z0-9]
IsAlnum(c) == c \in LowerLetters \cup UpperLetters \cup DigitChars

\* str.lower() on one character
LowerCh(c) ==
    CASE c = "A" -> "a"
      [] c = "B" -> "b"
      [] OTHER -> c

Lower(s) == [i \in 1..Len(s) |-> LowerCh(s[i])]

RECURSIVE LStrip(_, _)
LStrip(s, ch) ==
    IF s # <<>> /\ Head(s) = ch THEN LStrip(Tail(s), ch) ELSE s

RECURSIVE RStrip(_, _)
RStrip(s, ch) ==
    IF s # <<>> /\ s[Len(s)] = ch THEN RStrip(SubSeq(s, 1, Len(s) - 1), ch) ELSE s

\* str.strip(ch)
Strip(s, ch) == RStrip(LStrip(s, ch), ch)

RECURSIVE DropNonAlnum(_)
DropNonAlnum(s) ==
    IF s # <<>> /\ ~IsAlnum(Head(s)) THEN DropNonAlnum(Tail(s)) ELSE s

\* re.sub(r'[^a-zA-Z0-9]+', '_', s)
RECURSIVE SubNonAlnumRuns(_)
SubNonAlnumRuns(s) ==
    IF s = <<>> THEN <<>>
    ELSE IF IsAlnum(Head(s)) THEN <<Head(s)>> \o SubNonAlnumRuns(Tail(s))
    ELSE <<"_">> \o SubNonAlnumRuns(DropNonAlnum(s))

\* ------------------------------------------------------------------------
\* Attribute evaluator: subs_attrs
\* ------------------------------------------------------------------------

\* A local variable: F applied to the value v, computed once
Bind(v, F(_)) == CHOOSE y \in { F(x) : x \in {v} } : TRUE

\* text[i], or no character outside the text
At(text, i) == IF i >= 1 /\ i <= Len(text) THEN text[i] ELSE ""

\* text[i-1:] as Python slices it, for a 1-based i
From(text, i) == SubSeq(text, i, Len(text))

\* \w
IsWord(c) == IsAlnum(c) \/ c = "_"

\* [-\w]
IsNameRest(c) == IsWord(c) \/ c = "-"

\* The index after the run of [-\w] characters that starts at j
RECURSIVE NameEnd(_, _)
NameEnd(text, j) ==
    IF j <= Len(text) /\ IsNameRest(text[j]) THEN NameEnd(text, j + 1) ELSE j

\* str.replace of a two character text <<a, b>> by the text new
RECURSIVE Replace2(_, _, _, _)
Replace2(text, a, b, new) ==
    IF text = <<>> THEN <<>>
    ELSE IF Len(text) >= 2 /\ text[1] = a /\ text[2] = b
    THEN new \o Replace2(From(text, 3), a, b, new)
    ELSE <<text[1]>> \o Replace2(Tail(text), a, b, new)

\* text.replace('\\{','{\\') then text.replace('\\}','}\\')
escape_braces(text) ==
    Replace2(Replace2(text, "\\", "{", <<"{", "\\">>), "\\", "}", <<"}", "\\">>)

\* text.replace('{\\','{') then text.replace('}\\','}')
unescape_braces(text) ==
    Replace2(Replace2(text, "{", "\\", <<"{">>), "}", "\\", <<"}">>)

\* A match of r'\{(?P<name>[^\\\W][-\w]*?)\}(?!\\)' that starts at i: the
\* index of its closing brace, or 0
simple_match_at(text, i) ==
    IF At(text, i) = "{" /\ IsWord(At(text, i + 1))
    THEN LET j == NameEnd(text, i + 2)
         IN IF At(text, j) = "}" /\ At(text, j + 1) # "\\" THEN j ELSE 0
    ELSE 0

\* reo.search(text, pos) for the simple reference: the start index or 0
RECURSIVE simple_search(_, _)
simple_search(text, pos) ==
    IF pos > Len(text) THEN 0
    ELSE IF simple_match_at(text, pos) # 0 THEN pos
    ELSE simple_search(text, pos + 1)

\* attrs.get(name)
attr_get(A, name) == IF name \in DOMAIN A THEN A[name] ELSE None

\* The loop that expands the simple references from pos on
RECURSIVE simple_pass(_, _, _)
simple_pass(text, pos, A) ==
    Bind(simple_search(text, pos), LAMBDA i :
      IF i = 0 THEN text
      ELSE Bind(simple_match_at(text, i), LAMBDA j :
             Bind(attr_get(A, SubSeq(text, i + 1, j - 1)), LAMBDA v :
               IF ~v.def THEN simple_pass(text, j + 1, A)
               ELSE simple_pass(SubSeq(text, 1, i - 1) \o v.val \o From(text, j + 1),
                                i + Len(v.val), A))))

Ops == {"=", "?", "!", "#", "%", "@", "$"}

\* The first closing brace at or after j that no backslash follows, or 0
RECURSIVE FirstClose(_, _)
FirstClose(text, j) ==
    IF j > Len(text) THEN 0
    ELSE IF text[j] = "}" /\ At(text, j + 1) # "\\" THEN j
    ELSE FirstClose(text, j + 1)

\* A match of the conditional reference pattern that starts at i: the index
\* of its operator, or 0
cond_match_at(text, i) ==
    IF At(text, i) = "{" /\ IsWord(At(text, i + 1))
    THEN LET ne == NameEnd(text, i + 2)
         IN IF At(text, ne) \in Ops /\ FirstClose(text, ne + 1) # 0 THEN ne ELSE 0
    ELSE 0

RECURSIVE cond_search(_, _)
cond_search(text, pos) ==
    IF pos > Len(text) THEN 0
    ELSE IF cond_match_at(text, pos) # 0 THEN pos
    ELSE cond_search(text, pos + 1)

\* end_brace(text, start): the index of the brace that matches the one at
\* start, braces followed by a backslash not counted (the length of the
\* text when none matches)
RECURSIVE end_brace_loop(_, _, _)
end_brace_loop(text, idx, n) ==
    IF idx > Len(text) THEN Len(text)
    ELSE LET counted == idx = Len(text) \/ text[idx + 1] # "\\"
             n2 == IF ~counted THEN n
                   ELSE IF text[idx] = "{" THEN n + 1
                   ELSE IF text[idx] = "}" THEN n - 1
                   ELSE n
         IN IF n2 = 0 THEN idx ELSE end_brace_loop(text, idx + 1, n2)

end_brace(text, start) == end_brace_loop(text, start, 0)

\* re.split(r'(?<!\\):', text)
RECURSIVE split_colon(_, _, _)
split_colon(text, i, cur) ==
    IF i > Len(text) THEN <<cur>>
    ELSE IF text[i] = ":" /\ At(text, i - 1) # "\\"
    THEN <<cur>> \o split_colon(text, i + 1, <<>>)
    ELSE split_colon(text, i + 1, Append(cur, text[i]))

\* is_regexp('^' + pattern + '$'); the patterns of the model are made of
\* literal word characters and '.'
is_regexp(pattern) == \A k \in 1..Len(pattern) : IsWord(pattern[k]) \/ pattern[k] = "."

\* re.match('^' + pattern + '$', value) for such a pattern
re_match(pattern, value) ==
    /\ Len(pattern) = Len(value)
    /\ \A k \in 1..Len(pattern) : pattern[k] = "." \/ pattern[k] = value[k]

DropMarker == <<"{", "z", "z", "z", "z", "z", "}">>

\* regex_value with '$' treated like '@': no line is dropped
regex_value_nodrop(op, lval, rval) ==
    LET v == split_colon(rval, 1, <<>>)
    IN IF Len(v) \notin {2, 3} THEN [s |-> <<>>, error |-> TRUE]
       ELSE IF ~is_regexp(v[1]) THEN [s |-> <<>>, error |-> TRUE]
       ELSE LET w == [k \in 1..Len(v) |-> Replace2(v[k], "\\", ":", <<":">>)]
            IN [error |-> FALSE,
                s |-> IF re_match(w[1], lval) THEN w[2]
                      ELSE IF Len(w) = 3 THEN w[3] ELSE <<>>]

\* The text a '@' or '$' reference with a defined name is replaced by, and
\* whether error() was called
regex_value(op, lval, rval) ==
    LET v == split_colon(rval, 1, <<>>)
    IN IF Len(v) \notin {2, 3} THEN [s |-> <<>>, error |-> TRUE]
       ELSE IF ~is_regexp(v[1]) THEN [s |-> <<>>, error |-> TRUE]
       ELSE LET w == [k \in 1..Len(v) |-> Replace2(v[k], "\\", ":", <<":">>)]
                re_mo == re_match(w[1], lval)
            IN [error |-> FALSE,
                s |-> IF op = "@"
                      THEN IF re_mo THEN w[2]
                           ELSE IF Len(w) = 3 THEN w[3] ELSE <<>>
                      ELSE IF re_mo
                           THEN IF Len(w) = 2 THEN w[2]
                                ELSE IF w[2] = <<>> THEN DropMarker
                                ELSE w[2]
                           ELSE IF Len(w) = 2 THEN DropMarker ELSE w[3]]

\* cond_value with the results of '?' and '!' exchanged
cond_value_swapped(name, op, lval, rval) ==
    IF ~lval.def
    THEN [error |-> FALSE,
          s |-> CASE op = "=" -> rval
                  [] op = "?" -> rval
                  [] op = "!" -> <<>>
                  [] op = "#" -> <<"{">> \o name \o <<"}">>
                  [] op = "%" -> rval
                  [] op \in {"@", "$"} -> <<"{">> \o name \o <<"}">>]
    ELSE CASE op = "=" -> [error |-> FALSE, s |-> lval.val]
           [] op = "?" -> [error |-> FALSE, s |-> <<>>]
           [] op = "!" -> [error |-> FALSE, s |-> rval]
           [] op = "#" -> [error |-> FALSE, s |-> rval]
           [] op = "%" -> [error |-> FALSE, s |-> DropMarker]
           [] op \in {"@", "$"} -> regex_value(op, lval.val, rval)

\* The text a conditional reference {name op rval} is replaced by
cond_value(name, op, lval, rval) ==
    IF ~lval.def
    THEN [error |-> FALSE,
          s |-> CASE op = "=" -> rval
                  [] op = "?" -> <<>>
                  [] op = "!" -> rval
                  [] op = "#" -> <<"{">> \o name \o <<"}">>
                  [] op = "%" -> rval
                  [] op \in {"@", "$"} -> <<"{">> \o name \o <<"}">>]
    ELSE CASE op = "=" -> [error |-> FALSE, s |-> lval.val]
           [] op = "?" -> [error |-> FALSE, s |-> rval]
           [] op = "!" -> [error |-> FALSE, s |-> <<>>]
           [] op = "#" -> [error |-> FALSE, s |-> rval]
           [] op = "%" -> [error |-> FALSE, s |-> DropMarker]
           [] op \in {"@", "$"} -> regex_value(op, lval.val, rval)

\* The loop that expands the conditional references from pos on:
\* the text and whether error() was called
RECURSIVE cond_pass(_, _, _, _)
cond_pass(text, pos, A, err) ==
    Bind(cond_search(text, pos), LAMBDA i :
      IF i = 0 THEN [text |-> text, error |-> err]
      ELSE Bind(cond_match_at(text, i), LAMBDA ne :
             Bind(end_brace(text, i), LAMBDA end :
               Bind(cond_value(SubSeq(text, i + 1, ne - 1), text[ne],
                               attr_get(A, SubSeq(text, i + 1, ne - 1)),
                               SubSeq(text, ne + 1, end - 1)), LAMBDA r :
                 cond_pass(SubSeq(text, 1, i - 1) \o r.s \o From(text, end + 1),
                           i + Len(r.s), A, err \/ r.error)))))

\* The test for unsubstituted references left out
never_unsubstituted(text) == FALSE

\* re.search of an unsubstituted {name} reference: the line is dropped
has_unsubstituted(text) == simple_search(text, 1) # 0

\* A match of the system attribute pattern {action:expr} that starts at i:
\* the index of its colon, or 0
sys_match_at(text, i) ==
    IF At(text, i) = "{" /\ IsWord(At(text, i + 1))
    THEN LET ne == NameEnd(text, i + 2)
         IN IF At(text, ne) = ":" /\ FirstClose(text, ne + 1) # 0 THEN ne ELSE 0
    ELSE 0

RECURSIVE sys_search(_, _)
sys_search(text, pos) ==
    IF pos > Len(text) THEN 0
    ELSE IF sys_match_at(text, pos) # 0 THEN pos
    ELSE sys_search(text, pos + 1)

SystemNames ==
    { <<"e", "v", "a", "l">>, <<"s", "y", "s">>, <<"s", "y", "s", "2">>,
      <<"i", "n", "c", "l", "u", "d", "e">>, <<"i", "n", "c", "l", "u", "d", "e", "1">> }

\* system(action, expr) as subs_attrs sees it: None for an illegal action
\* name, else the result sysres of running the action
system_attr(action, expr, sysres) ==
    IF action \notin SystemNames THEN None ELSE sysres

\* The loop that expands the system attributes from pos on: the text, or
\* None when an action returned None
RECURSIVE sys_pass(_, _, _)
sys_pass(text, pos, sysres) ==
    Bind(sys_search(text, pos), LAMBDA i :
      IF i = 0 THEN Some(text)
      ELSE Bind(sys_match_at(text, i), LAMBDA ne :
             Bind(FirstClose(text, ne + 1), LAMBDA close :
               Bind(system_attr(SubSeq(text, i + 1, ne - 1),
                                unescape_braces(SubSeq(text, ne + 1, close - 1)),
                                sysres), LAMBDA r :
                 IF ~r.def THEN None
                 ELSE sys_pass(SubSeq(text, 1, i - 1) \o r.val \o From(text, close + 1),
                               i + Len(r.val), sysres)))))

\* The body of the loop of subs_attrs for one line: the substituted line or
\* None when the line is deleted, and whether error() was called
subs_line(text, A, sysres) ==
    Bind(cond_pass(simple_pass(escape_braces(text), 1, A), 1, A, FALSE), LAMBDA c :
      IF has_unsubstituted(c.text) THEN [res |-> None, error |-> c.error]
      ELSE Bind(sys_pass(c.text, 1, sysres), LAMBDA t3 :
             IF ~t3.def THEN [res |-> None, error |-> c.error]
             ELSE [res |-> Some(unescape_braces(t3.val)), error |-> c.error]))

\* subs_attrs(lines, dictionary) on a tuple of lines: the lines kept
RECURSIVE subs_attrs(_, _, _)
subs_attrs(lines, A, sysres) ==
    IF lines = <<>> THEN <<>>
    ELSE Bind(subs_line(Head(lines), A, sysres), LAMBDA r :
           (IF r.res.def THEN <<r.res.val>> ELSE <<>>)
              \o subs_attrs(Tail(lines), A, sysres))

varsSection ==
    <<endtags, ids, section_numbers, doc_level, idprefix, out, doc_done, last,
      doctype, backend, diagnostics>>
varsAttrs == <<attrs, pieces, line, subst>>
varsReader ==
    <<files, infile, safe_mode, reader, opened, nopen, has_errors, executed,
      exception, returned, unclosed, lastop, phase>>
varsPending == <<alist, btitle, element, isempty>>
varsReaderRest ==
    <<files, infile, safe_mode, reader, opened, nopen, executed, exception, returned,
      unclosed, lastop, phase>>
varsRun == <<doc_attributes, conf_attrs, cmd_attrs, outfile, stage>>
varsCallout == <<comap, calloutindex, listnumber, observed, closed, callouts>>
varsExit == <<has_warnings, on_disk, exit_code>>
varsTable == <<table>>
varsLex == <<prev_element, prev_cursor, lex, call>>
varsConfig == <<specialchars, special, sections, expanded>>
varsMore == <<varsPending, varsRun, varsCallout, varsExit, varsTable, varsLex, varsConfig>>
vars == <<varsSection, varsAttrs, varsReader, varsMore>>

\* ---- the lines and attribute maps subs_attrs is applied to

MaxPieces == 2

NameX == <<"x">>
NameY == <<"y">>
AttrNames == {NameX, NameY}

\* document.attributes: x is undefined, empty, a text or a text that holds a
\* reference; y is undefined or a text
AttrMaps ==
    { [n \in AttrNames |-> IF n = NameX THEN vx ELSE vy] :
         vx \in {None, Some(<<>>), Some(<<"a">>), Some(<<"{", "y", "}">>)},
         vy \in {None, Some(<<"b">>)} }

\* The value a reference to x carries, and the one a reference to y carries
ValueOf(n) == IF n = NameX THEN <<"b">> ELSE <<"c">>

Piece(kind, name, op, val) == [kind |-> kind, name |-> name, op |-> op, val |-> val]

LiteralPieces == { Piece("lit", <<>>, "", <<"a">>) }
SimplePieces == { Piece("simple", n, "", <<>>) : n \in AttrNames }
\* \{y} and {y\}
EscapedPieces == { Piece("esc_open", NameY, "", <<>>), Piece("esc_close", NameY, "", <<>>) }
\* {y?{x}} and {x?{y}}
NestedPieces == { Piece("nested", NameY, "?", NameX), Piece("nested", NameX, "?", NameY) }
CondPieces ==
    { Piece("cond", n, op, ValueOf(n)) : n \in AttrNames, op \in {"=", "?", "!", "#", "%"} }
\* {x@a:b} {x@a:b:c} {x$a:b} {x$a:b:c} {x$a::c} {x@.:b} {x@a} {y@a:b} {y$a:b:c}
RegexPieces ==
    { Piece("regex", NameX, "@", <<"a", ":", "b">>),
      Piece("regex", NameX, "@", <<"a", ":", "b", ":", "c">>),
      Piece("regex", NameX, "$", <<"a", ":", "b">>),
      Piece("regex", NameX, "$", <<"a", ":", "b", ":", "c">>),
      Piece("regex", NameX, "$", <<"a", ":", ":", "c">>),
      Piece("regex", NameX, "@", <<".", ":", "b">>),
      Piece("regex", NameX, "@", <<"a">>),
      Piece("regex", NameY, "@", <<"a", ":", "b">>),
      Piece("regex", NameY, "$", <<"a", ":", "b", ":", "c">>) }
\* {sys:a} and {q:a}
SystemPieces ==
    { Piece("system", <<"s", "y", "s">>, ":", <<"a">>),
      Piece("system", <<"q">>, ":", <<"a">>) }

\* The source text of a piece
piece_text(p) ==
    CASE p.kind = "lit" -> p.val
      [] p.kind = "simple" -> <<"{">> \o p.name \o <<"}">>
      [] p.kind = "esc_open" -> <<"\\", "{">> \o p.name \o <<"}">>
      [] p.kind = "esc_close" -> <<"{">> \o p.name \o <<"\\", "}">>
      [] p.kind = "nested" -> <<"{">> \o p.name \o <<p.op, "{">> \o p.val \o <<"}", "}">>
      [] OTHER -> <<"{">> \o p.name \o <<p.op>> \o p.val \o <<"}">>

\* What system() gives for a legal action
SysResults == { None, Some(<<>>), Some(<<"o">>) }

NotCalled == [called |-> FALSE, res |-> None, error |-> FALSE]

\* The caller builds the line
AppendPiece(p) ==
    /\ ~subst.called
    /\ Len(pieces) < MaxPieces
    /\ pieces' = Append(pieces, p)
    /\ line' = line \o piece_text(p)
    /\ UNCHANGED <<attrs, subst>>

\* subs_attrs(line) on a string: the substituted string, or None when the
\* line was deleted
SubsAttrs(sysres) ==
    /\ ~subst.called
    /\ LET kept == subs_attrs(<<line>>, attrs, sysres)
       IN subst' = [called |-> TRUE,
                    res |-> IF kept = <<>> THEN None ELSE Some(kept[1]),
                    error |-> subs_line(line, attrs, sysres).error]
    /\ UNCHANGED <<attrs, pieces, line>>

\* ------------------------------------------------------------------------
\* Paths and the safe mode tests: file_in, is_safe_file, safe_filename
\* ------------------------------------------------------------------------

\* document.infile when the document is read from standard input
Stdin == <<"<stdin>">>

\* os.getcwd()
Cwd == <<"/", "d">>

RECURSIVE LastSlash(_)
LastSlash(p) ==
    IF p = <<>> THEN 0
    ELSE IF p[Len(p)] = "/" THEN Len(p)
    ELSE LastSlash(SubSeq(p, 1, Len(p) - 1))

\* os.path.dirname
dirname(p) ==
    LET k == LastSlash(p)
    IN IF k = 0 THEN <<>> ELSE IF k = 1 THEN <<"/">> ELSE SubSeq(p, 1, k - 1)

\* os.path.isabs
isabs(p) == p # <<>> /\ p[1] = "/"

\* os.path.join
join(a, b) ==
    IF isabs(b) THEN b
    ELSE IF a = <<>> THEN b
    ELSE IF a[Len(a)] = "/" THEN a \o b
    ELSE a \o <<"/">> \o b

\* os.path.realpath; the paths of the model hold no symbolic link and no '..'
realpath(p) == IF isabs(p) THEN p ELSE IF p = <<".">> THEN Cwd ELSE join(Cwd, p)

\* os.path.isfile
isfile(p) == p \in DOMAIN files /\ p # Stdin

\* os.path.commonprefix((a, b)): the longest common leading characters
RECURSIVE commonprefix(_, _)
commonprefix(a, b) ==
    IF a # <<>> /\ b # <<>> /\ Head(a) = Head(b)
    THEN <<Head(a)>> \o commonprefix(Tail(a), Tail(b))
    ELSE <<>>

\* A test of the parent directory by whole path components
file_in_components(fname, directory) ==
    LET dir == IF directory = <<>> THEN Cwd ELSE realpath(directory)
        f == realpath(fname)
    IN Len(f) > Len(dir) + 1 /\ SubSeq(f, 1, Len(dir) + 1) = dir \o <<"/">>

\* file_in(fname, directory)
file_in(fname, directory) ==
    LET dir == IF directory = <<>> THEN Cwd ELSE realpath(directory)
    IN commonprefix(dir, realpath(fname)) = dir

\* is_safe_file(fname, directory); given says whether directory was passed
is_safe_file(fname, directory, given) ==
    IF ~given
    THEN IF infile = Stdin THEN ~safe_mode
         ELSE ~safe_mode \/ file_in(fname, dirname(infile))
    ELSE ~safe_mode \/ file_in(fname, IF directory = <<>> THEN <<".">> ELSE directory)

\* safe_filename(fname, parentdir): the file name or None, and whether
\* unsafe_error() was called
safe_filename(fname, parentdir) ==
    LET full == IF isabs(fname) THEN fname ELSE join(parentdir, fname)
    IN IF ~isfile(full) THEN [name |-> None, error |-> FALSE]
       ELSE IF ~is_safe_file(full, parentdir, TRUE) THEN [name |-> None, error |-> TRUE]
       ELSE [name |-> Some(full), error |-> FALSE]

\* ------------------------------------------------------------------------
\* Input reader: Reader1
\* ------------------------------------------------------------------------

READ_BUFFER_MIN == 10
DefaultMaxDepth == 5

\* The deepest nesting of Python calls, and the most files open at a time
RecursionLimit == 24
MaxOpenFiles == 8

\* An input line as macros.match() sees it: its kind, the macro target and
\* the depth attribute of an include macro (0: none)
Line(kind, target, depth) == [kind |-> kind, target |-> target, depth |-> depth]
NoLine == Line("none", <<>>, 0)
TextLine == Line("text", <<"t">>, 0)
BlankLine == Line("blank", <<>>, 0)

\* bool(line) for a line or None
Truthy(l) == l.kind \notin {"none", "blank"}

Cursor(fname, lineno, l) == [fname |-> fname, lineno |-> lineno, line |-> l]
NoCursor == Cursor(<<>>, 0, NoLine)

\* Reader.__init__
NewReader ==
    [fname |-> <<>>, lineno |-> 0, next |-> <<>>, cursor |-> NoCursor,
     parent |-> <<>>, current_depth |-> 0, max_depth |-> DefaultMaxDepth,
     depth |-> 0, skip |-> FALSE, skipname |-> <<>>, skipto |-> -1]

\* What assign() copies: every field but the chain of parents, which is
\* kept as the stack below the frame
Frame(r) ==
    [fname |-> r.fname, lineno |-> r.lineno, next |-> r.next, cursor |-> r.cursor,
     current_depth |-> r.current_depth, max_depth |-> r.max_depth,
     depth |-> r.depth, skip |-> r.skip, skipname |-> r.skipname, skipto |-> r.skipto]

\* assign(self, self.parent)
Restore(r) ==
    LET f == r.parent[Len(r.parent)]
    IN [fname |-> f.fname, lineno |-> f.lineno, next |-> f.next, cursor |-> f.cursor,
        parent |-> SubSeq(r.parent, 1, Len(r.parent) - 1),
        current_depth |-> f.current_depth, max_depth |-> f.max_depth,
        depth |-> f.depth, skip |-> f.skip, skipname |-> f.skipname, skipto |-> f.skipto]

\* The reader with the globals its methods change
World(r, o, n, e, x, u) ==
    [rd |-> r, opened |-> o, nopen |-> n, has_errors |-> e, executed |-> x,
     unclosed |-> u]

Ret(w, l) == [w |-> w, result |-> l, exc |-> ""]
Raise(w, e) == [w |-> w, result |-> NoLine, exc |-> e]

\* The 'top up buffer' loop of Reader1.read
RECURSIVE top_up(_)
top_up(r) ==
    IF Len(r.next) <= READ_BUFFER_MIN /\ r.lineno < Len(files[r.fname])
    THEN top_up([r EXCEPT !.lineno = r.lineno + 1,
                          !.next = Append(r.next,
                                     Cursor(r.fname, r.lineno + 1, files[r.fname][r.lineno + 1]))])
    ELSE r

\* Reader1.eof: the world after it (included files that ended are closed and
\* their parents restored) and its answer
RECURSIVE R1_eof(_)
R1_eof(w) ==
    IF w.rd.next = <<>>
    THEN IF w.rd.parent # <<>>
         THEN R1_eof([w EXCEPT !.rd = Restore(w.rd), !.nopen = w.nopen - 1])
         ELSE [w |-> w, eof |-> TRUE]
    ELSE [w |-> w, eof |-> FALSE]

\* Reader1.unread
unread(r, cursor) == [r EXCEPT !.next = <<cursor>> \o r.next]

RECURSIVE R1_read(_, _, _)
RECURSIVE R1_open(_, _, _)

\* open(fname) of Reader1.open: the file must exist and a descriptor be free
can_open(w, fname) == fname \in DOMAIN files /\ w.nopen < MaxOpenFiles

\* The end of Reader1.open: the first line read is pushed back
after_prefill(r) ==
    IF r.exc = "" /\ Truthy(r.result)
    THEN Ret([r.w EXCEPT !.rd = [unread(r.w.rd, r.w.rd.cursor) EXCEPT !.cursor = NoCursor]],
             NoLine)
    ELSE [r EXCEPT !.result = NoLine]

\* Reader1.open
R1_open(w, fname, fuel) ==
    CASE fuel = 0 -> Raise(w, "RuntimeError")
      [] fuel # 0 /\ ~can_open(w, fname) -> Raise(w, "IOError")
      [] OTHER ->
           after_prefill(R1_read([w EXCEPT !.rd.fname = fname, !.rd.lineno = 0,
                                           !.rd.next = <<>>,
                                           !.opened = Append(w.opened, fname),
                                           !.nopen = w.nopen + 1],
                                 FALSE, fuel - 1))

\* What the include macro l does before any file is opened: "raw" when the
\* maximum depth is reached, "next" when the target is empty or refused,
\* "include1" or "open", with the world after the tests and the file name
include_plan(w, l) ==
    IF w.rd.current_depth >= w.rd.max_depth
    THEN [kind |-> "raw", w |-> w, fname |-> <<>>]
    ELSE
    LET sub == subs_line(l.target, attrs, None).res
    IN IF ~sub.def \/ sub.val = <<>> THEN [kind |-> "next", w |-> w, fname |-> <<>>]
       ELSE IF w.rd.fname = Stdin THEN [kind |-> "open", w |-> w, fname |-> sub.val]
       ELSE
       LET sf == safe_filename(sub.val, dirname(w.rd.fname))
           w1 == [w EXCEPT !.has_errors = w.has_errors \/ sf.error]
       IN IF ~sf.name.def THEN [kind |-> "next", w |-> w1, fname |-> <<>>]
          ELSE [kind |-> IF l.kind = "include1" THEN "include1" ELSE "open",
                w |-> w1, fname |-> sf.name.val]

\* The reader cloned as parent of itself, with the depth attribute of l
pushed(w, l) ==
    [w EXCEPT !.rd.parent = Append(w.rd.parent, Frame(w.rd)),
              !.rd.max_depth = IF l.depth > 0 THEN w.rd.current_depth + l.depth
                               ELSE w.rd.max_depth]

\* After self.open(fname) of the include macro: the depth is incremented
\* and the first line of the included file is read
after_open(o, fuel) ==
    IF o.exc # "" THEN o
    ELSE R1_read([o.w EXCEPT !.rd.current_depth = o.w.rd.current_depth + 1],
                 FALSE, fuel - 1)

\* The include macro branch of Reader1.read for the macro line l
include_macro(p, l, fuel) ==
    CASE p.kind = "raw" -> Ret(p.w, l)
      [] p.kind = "next" -> R1_read(p.w, FALSE, fuel - 1)
      [] p.kind = "include1" ->
           \* the file is read into config.include1
           IF p.w.nopen >= MaxOpenFiles THEN Raise(p.w, "IOError")
           ELSE Ret([p.w EXCEPT !.opened = Append(p.w.opened, p.fname)],
                    Line("include1ref", p.fname, 0))
      [] p.kind = "open" ->
           after_open(R1_open(pushed(p.w, l), p.fname, fuel - 1), fuel)

\* The buffer topped up and its first entry made the cursor
taken(w) ==
    LET r == top_up(w.rd)
    IN [w EXCEPT !.rd = [r EXCEPT !.cursor = Head(r.next), !.next = Tail(r.next)]]

\* The branch of Reader1.read for an empty buffer
after_eof(e, fuel) ==
    IF ~e.eof THEN R1_read(e.w, FALSE, fuel - 1) ELSE Ret(e.w, NoLine)

\* Reader1.read(skip)
R1_read(w, skip, fuel) ==
    CASE fuel = 0 -> Raise(w, "RuntimeError")
      [] fuel # 0 /\ top_up(w.rd).next = <<>> ->
           after_eof(R1_eof([w EXCEPT !.rd = top_up(w.rd)]), fuel)
      [] OTHER ->
           IF taken(w).rd.cursor.line.kind \in {"include", "include1"} /\ ~skip
           THEN include_macro(include_plan(taken(w), taken(w).rd.cursor.line),
                              taken(w).rd.cursor.line, fuel)
           ELSE Ret(taken(w), taken(w).rd.cursor.line)

\* ------------------------------------------------------------------------
\* system(name, args) and the input reader: Reader
\* ------------------------------------------------------------------------

\* system(name, args, is_macro): the world after it and the result, sysres
\* being what the host evaluation or the shell command yields
system(w, name, args, sysres) ==
    IF name \notin {"eval", "sys", "sys2", "include", "include1"}
    THEN [w |-> w, s |-> None]
    ELSE IF safe_mode /\ name \notin {"include", "include1"}
    THEN [w |-> [w EXCEPT !.has_errors = TRUE], s |-> None]
    ELSE IF name = "eval"
    THEN [w |-> [w EXCEPT !.executed = Append(w.executed, "eval")], s |-> sysres]
    ELSE IF name \in {"sys", "sys2"}
    THEN [w |-> [w EXCEPT !.executed = Append(w.executed, "os.system")],
          s |-> IF sysres.def THEN sysres ELSE Some(<<>>)]
    ELSE IF name = "include"
    THEN IF args \notin DOMAIN files THEN [w |-> w, s |-> None]
         ELSE IF ~is_safe_file(args, <<>>, FALSE)
         THEN [w |-> [w EXCEPT !.has_errors = TRUE], s |-> None]
         ELSE [w |-> [w EXCEPT !.opened = Append(w.opened, args)],
               s |-> IF files[args] = <<>> THEN Some(<<>>) ELSE Some(<<"t">>)]
    ELSE [w |-> w, s |-> Some(<<"t">>)]

\* system() for the executable names, as the callers outside the reader use
\* it: what ran and whether unsafe_error() was called; it raises nothing
system_exec(name, sysres) ==
    Bind(system(World(NewReader, <<>>, 0, FALSE, <<>>, 0), name, <<>>, sysres), LAMBDA r :
      [ran |-> r.w.executed, error |-> r.w.has_errors, exc |-> ""])

\* Reader.read_super
read_super(w, fuel) ==
    IF fuel = 0 THEN Raise(w, "RuntimeError")
    ELSE Bind(R1_read(w, w.rd.skip, fuel - 1), LAMBDA r :
           IF r.exc # "" THEN r
           ELSE IF r.result.kind = "none" /\ r.w.rd.skip
           THEN Raise(r.w, "missing endif")
           ELSE r)

\* The body of 'while self.skip' in Reader.read, before the next read_super
skip_step(w, l) ==
    IF l.kind = "endif"
    THEN IF w.rd.depth - 1 < 0
         THEN Raise([w EXCEPT !.rd.depth = w.rd.depth - 1], "mismatched macro")
         ELSE IF w.rd.depth - 1 = w.rd.skipto
         THEN IF l.target # <<>> /\ w.rd.skipname # l.target
              THEN Raise([w EXCEPT !.rd.depth = w.rd.depth - 1, !.rd.skip = FALSE,
                                   !.unclosed = w.unclosed - 1],
                         "mismatched macro")
              ELSE Ret([w EXCEPT !.rd.depth = w.rd.depth - 1, !.rd.skip = FALSE,
                                 !.unclosed = w.unclosed - 1], l)
         ELSE Ret([w EXCEPT !.rd.depth = w.rd.depth - 1], l)
    ELSE IF l.kind \in {"ifdef", "ifndef"}
    THEN IF l.target = <<>> THEN Raise(w, "missing macro target")
         ELSE Ret([w EXCEPT !.rd.depth = w.rd.depth + 1], l)
    ELSE Ret(w, l)

\* The loop 'while self.skip' of Reader.read; a result of None is the
\* 'return None' of the loop
RECURSIVE skip_loop(_, _, _)
skip_loop(w, l, fuel) ==
    IF ~w.rd.skip THEN Ret(w, l)
    ELSE Bind(skip_step(w, l), LAMBDA st :
           IF st.exc # "" THEN st
           ELSE Bind(read_super(st.w, fuel), LAMBDA r :
                  IF r.exc # "" \/ r.result.kind = "none" THEN r
                  ELSE skip_loop(r.w, r.result, fuel)))

\* The ifdef, ifndef or endif met while not skipping, before the recursive read
cond_step(w, l) ==
    IF l.kind = "endif" THEN Ret([w EXCEPT !.rd.depth = w.rd.depth - 1], l)
    ELSE IF l.target = <<>> THEN Raise(w, "missing macro target")
    ELSE Bind(IF l.kind = "ifdef" THEN ~attr_get(attrs, l.target).def
              ELSE attr_get(attrs, l.target).def, LAMBDA skip :
           Ret([w EXCEPT !.rd.skip = skip,
                         !.rd.skipto = IF skip THEN w.rd.depth ELSE w.rd.skipto,
                         !.rd.skipname = IF skip THEN l.target ELSE w.rd.skipname,
                         !.rd.depth = w.rd.depth + 1,
                         !.unclosed = IF skip THEN w.unclosed + 1 ELSE w.unclosed],
               l))

\* The expansion of an executable block macro at the end of Reader.read
exec_macro(w, l, sysres) ==
    Bind(system(w, l.kind, l.target, sysres), LAMBDA r :
      IF r.s.def
      THEN Ret([r.w EXCEPT !.rd.cursor.line = Line("output", r.s.val, 0)],
               Line("output", r.s.val, 0))
      ELSE Ret(r.w, l))

\* The end of Reader.read: the expansion of an executable block macro
read_end(c, sysres) ==
    IF c.exc = "" /\ c.result.kind \in {"eval", "sys", "sys2"}
    THEN exec_macro(c.w, c.result, sysres)
    ELSE c

\* Reader.read
RECURSIVE Rd_read(_, _, _)
Rd_read(w, sysres, fuel) ==
    IF fuel = 0 THEN Raise(w, "RuntimeError")
    ELSE
    Bind(read_super(w, fuel - 1), LAMBDA r0 :
      IF r0.exc # "" \/ r0.result.kind = "none" THEN r0
      ELSE
      Bind(skip_loop(r0.w, r0.result, fuel - 1), LAMBDA sk :
        IF sk.exc # "" \/ sk.result.kind = "none" THEN sk
        ELSE IF sk.result.kind \in {"ifdef", "ifndef", "endif"}
        THEN Bind(cond_step(sk.w, sk.result), LAMBDA cs :
               IF cs.exc # "" THEN cs
               ELSE read_end(Rd_read(cs.w, sysres, fuel - 1), sysres))
        ELSE read_end(sk, sysres)))

\* ------------------------------------------------------------------------
\* Filters and the blocks that run them
\* ------------------------------------------------------------------------

\* filter_lines(filter_cmd, lines, dict): whether the shell command was
\* started, whether error() was called and the exception raised
filter_lines(filter_cmd, A) ==
    IF filter_cmd = <<>> \/ Strip(filter_cmd, " ") = <<>>
    THEN [ran |-> <<>>, error |-> FALSE, exc |-> ""]
    ELSE Bind(subs_line(filter_cmd, A, None), LAMBDA s :
           IF ~s.res.def \/ s.res.val = <<>>
           THEN [ran |-> <<>>, error |-> s.error, exc |-> "undefined filter attribute"]
           ELSE [ran |-> <<"Popen">>, error |-> s.error, exc |-> ""])

\* The filter step of Paragraph.translate
paragraph_filter(filter_cmd, A) ==
    IF filter_cmd # <<>> THEN filter_lines(filter_cmd, A)
    ELSE [ran |-> <<>>, error |-> FALSE, exc |-> ""]

\* The body of DelimitedBlock.translate for a block that is neither a
\* section body nor a list
delimited_block(name, skip, filter_cmd, A) ==
    IF safe_mode /\ name = "blockdef-backend"
    THEN [ran |-> <<>>, error |-> TRUE, exc |-> ""]
    ELSE IF skip THEN [ran |-> <<>>, error |-> FALSE, exc |-> ""]
    ELSE paragraph_filter(filter_cmd, A)

\* ------------------------------------------------------------------------
\* Documents, and the operations on the reader and on the blocks
\* ------------------------------------------------------------------------

\* The most blocks of lines in the main document, and the most operations
\* on blocks in a run
MaxBlocks == 2
MaxOps == 3

PathM == <<"/", "d", "/", "m">>
PathA == <<"/", "d", "/", "a">>
PathX == <<"/", "e", "/", "x">>
PathY == <<"/", "d", "2", "/", "y">>
Paths == {PathM, Stdin, PathA, PathX, PathY}

Inc(t) == Line("include", t, 0)
IncD(t, d) == Line("include", t, d)
Inc1(t) == Line("include1", t, 0)
Ifdef(t) == Line("ifdef", t, 0)
Ifndef(t) == Line("ifndef", t, 0)
Endif(t) == Line("endif", t, 0)
SysMacro == Line("sys", <<"c">>, 0)
EvalMacro == Line("eval", <<"c">>, 0)

\* The file system: the main document m (also what stdin holds), the file a,
\* and one-line files x outside the document directory and y in a directory
\* whose name starts with the name of the document directory
Files(main, a) ==
    [p \in Paths |-> IF p \in {PathM, Stdin} THEN main
                     ELSE IF p = PathA THEN a
                     ELSE <<TextLine>>]

\* The documents made of at most n of the blocks B
RECURSIVE Docs(_, _)
Docs(B, n) ==
    IF n = 0 THEN { <<>> }
    ELSE LET S == Docs(B, n - 1) IN S \cup { d \o b : d \in S, b \in B }

IncludeBlocks ==
    { <<TextLine>>, <<BlankLine>>, <<Inc(PathA)>>, <<Inc(PathX)>>, <<Inc(PathY)>>,
      <<Inc1(PathX)>>, <<Inc(PathM)>>, <<IncD(PathM, 2)>> }

IncludedFiles == { <<TextLine>>, <<>>, <<Inc(PathA)>>, <<Inc(PathX)>> }

CondBlocks ==
    { <<TextLine>>,
      <<Ifdef(NameY), TextLine, Endif(<<>>)>>,
      <<Ifdef(NameY)>>,
      <<Ifdef(NameX), TextLine, Endif(NameX)>>,
      <<Ifndef(NameX), Inc(PathA), SysMacro, Endif(NameX)>>,
      <<Ifdef(NameY), Ifdef(NameX), Endif(<<>>)>>,
      <<Ifdef(<<>>)>>,
      <<Endif(<<>>)>>,
      <<Inc(PathA)>>,
      <<SysMacro>>,
      <<EvalMacro>> }

CondIncludedFiles == { <<TextLine>>, <<Ifdef(NameY), TextLine>>, <<Endif(<<>>)>> }

\* document.attributes while a document is read: x is defined, y is not
ReaderAttrs == [n \in AttrNames |-> IF n = NameX THEN Some(<<"a">>) ELSE None]

FilterCmds == { <<>>, <<" ">>, <<"f">>, <<"f", " ", "{", "x", "}">>, <<"{", "y", "}">> }

Op(kind, n) == [kind |-> kind, n |-> n]
NoOp == Op("none", 0)

WorldNow == World(reader, opened, nopen, has_errors, executed, unclosed)

\* The new values of the variables a method of the reader changes
Commit(r) ==
    /\ reader' = r.w.rd
    /\ opened' = r.w.opened
    /\ nopen' = r.w.nopen
    /\ has_errors' = r.w.has_errors
    /\ executed' = r.w.executed
    /\ unclosed' = r.w.unclosed
    /\ exception' = r.exc

\* reader.open(infile)
Open ==
    /\ phase = "start"
    /\ stage \in {"idle", "open"}
    /\ \E r \in { R1_open(WorldNow, infile, RecursionLimit) } :
          /\ Commit(r)
          /\ phase' = IF r.exc # "" THEN "failed" ELSE "reading"
    /\ UNCHANGED <<files, infile, safe_mode, returned, lastop>>
    /\ UNCHANGED <<varsSection, varsAttrs, varsMore>>

\* reader.read()
Read(sysres) ==
    /\ phase = "reading"
    /\ stage \in {"idle", "translate"}
    /\ \E r \in { Rd_read(WorldNow, sysres, RecursionLimit) } :
          /\ Commit(r)
          /\ phase' = IF r.exc # "" THEN "failed"
                      ELSE IF r.result.kind = "none" THEN "eof" ELSE "reading"
          /\ returned' = IF r.exc = "" /\ r.result.kind # "none"
                         THEN Append(returned, [r.w.rd.cursor EXCEPT !.line = r.result])
                         ELSE returned
    /\ UNCHANGED <<files, infile, safe_mode, lastop>>
    /\ UNCHANGED <<varsSection, varsAttrs, varsMore>>

\* No call of read_ahead or of read_until yet
NoCall ==
    [op |-> "none", n |-> 0, pattern |-> "", same_file |-> FALSE,
     before |-> World(NewReader, <<>>, 0, FALSE, <<>>, 0),
     after |-> World(NewReader, <<>>, 0, FALSE, <<>>, 0), result |-> <<>>, exc |-> ""]

\* No answer of Lex.next() waiting for its element to be translated;
\* consumed is the number of lines that the translation of the last
\* element took from the input, -1 when there was none or it failed
NoAnswer ==
    [answer |-> "none", cached |-> FALSE, fresh |-> "none", line |-> NoLine, consumed |-> -1]

\* The calls of reader.read(), of Lex.next() and of next.translate() by the
\* code that translates the elements of a document: Lex.next() translates
\* the blocks that are skipped, and the translation of a list calls
\* Lex.next() and next.translate()
RECURSIVE Invoke(_, _, _, _, _)

\* reader.read() on an input without executable block macros
read(w) == Invoke("read", w, "none", NoCursor, "none")

\* Reader.read_next: the line is read and pushed back, the cursor restored
read_next(w) ==
    Bind(read(w), LAMBDA r :
      IF r.exc = "" /\ r.result.kind # "none"
      THEN [r EXCEPT !.w.rd = [unread(r.w.rd, r.w.rd.cursor) EXCEPT !.cursor = w.rd.cursor]]
      ELSE r)

\* A line the recognizers named in names accept (their patterns are read
\* from the configuration)
Accepted(names) == Line("element", names, 0)

\* X.isnext() when l is the next line: an attribute list and the block
\* macro of an include left in the text are also text for a paragraph
isnext(name, l) ==
    CASE l.kind = "element" -> \E i \in 1..Len(l.target) : l.target[i] = name
      [] l.kind = "item" -> name \in {"List", "Paragraph"}
      [] l.kind = "attrlist" -> name \in {"AttributeList", "Paragraph"}
      [] l.kind \in {"include", "include1"} -> name \in {"BlockMacro", "Paragraph"}
      [] l.kind \in {"blank", "none"} -> FALSE
      [] OTHER -> name = "Paragraph"

\* reo.match(s) of read_until for the patterns its callers pass: \s*\S+ of
\* skip_blank_lines, the terminators of Paragraph.translate (a blank line,
\* an attribute list, a line of +, the delimiter of a block or of a table),
\* the terminators of the text of a list item, and the delimiters of the
\* block that is skipped and of the other blocks
stops(l, pattern) ==
    CASE pattern = "nonblank" -> l.kind # "blank"
      [] pattern = "paragraph" ->
           \/ l.kind \in {"blank", "attrlist", "plus"}
           \/ \E n \in {"SkipBlock", "DelimitedBlock", "OldTable", "Table"} : isnext(n, l)
      [] pattern = "itemtext" ->
           \/ l.kind \in {"blank", "plus"}
           \/ \E n \in {"List", "SkipBlock", "DelimitedBlock", "OldTable", "Table"} :
                 isnext(n, l)
      [] OTHER -> isnext(pattern, l)

\* The loop of Reader.read_until: lines are read up to the end of the
\* input or to the first line the pattern matches (in the file fname when
\* same_file), which is pushed back; the result is the tuple of lines read
RECURSIVE read_until_loop(_, _, _, _, _, _)
read_until_loop(w, pattern, same_file, fname, result, fuel) ==
    IF fuel = 0 THEN Raise(w, "RuntimeError")
    ELSE Bind(read_next(w), LAMBDA e :
           IF e.exc # "" THEN e
           ELSE IF e.result.kind = "none" THEN [e EXCEPT !.result = result]
           ELSE Bind(read(e.w), LAMBDA r :
                  IF r.exc # "" THEN r
                  ELSE IF (~same_file \/ fname = r.w.rd.cursor.fname)
                          /\ stops(r.result, pattern)
                  THEN [r EXCEPT !.w.rd = [unread(r.w.rd, r.w.rd.cursor)
                                              EXCEPT !.cursor = e.w.rd.cursor],
                                 !.result = result]
                  ELSE read_until_loop(r.w, pattern, same_file, fname,
                                       Append(result, r.result), fuel - 1)))

\* Reader.read_until(pattern, same_file); self.cursor[0] is an error
\* while the cursor is None
read_until_any_file(w, pattern, same_file, fuel) ==
    IF same_file /\ w.rd.cursor = NoCursor THEN Raise(w, "TypeError")
    ELSE read_until_loop(w, pattern, FALSE, w.rd.cursor.fname, <<>>, fuel)
read_until(w, pattern, same_file, fuel) ==
    IF same_file /\ w.rd.cursor = NoCursor THEN Raise(w, "TypeError")
    ELSE read_until_loop(w, pattern, same_file, w.rd.cursor.fname, <<>>, fuel)

\* reader.skip_blank_lines() and reader.eof() at the head of Lex.next: the
\* result is the line that is next
skip_blank_lines(w) ==
    Bind(read_until(w, "nonblank", FALSE, RecursionLimit), LAMBDA r :
      IF r.exc # "" THEN r ELSE read_next(r.w))

\* The recognizers of Lex.next on the next line, in the order of the code;
\* SkipBlock stands for a delimited block with the option skip, that
\* Lex.next translates itself, and "" for the paragraph that was expected
recognize(l) ==
    IF isnext("AttributeEntry", l) THEN "AttributeEntry"
    ELSE IF isnext("AttributeList", l) THEN "AttributeList"
    ELSE IF isnext("Title", l) THEN "Title"
    ELSE IF isnext("BlockMacro", l) THEN "BlockMacro"
    ELSE IF isnext("List", l) THEN "List"
    ELSE IF isnext("SkipBlock", l) THEN "SkipBlock"
    ELSE IF isnext("DelimitedBlock", l) THEN "DelimitedBlock"
    ELSE IF isnext("OldTable", l) THEN "OldTable"
    ELSE IF isnext("Table", l) THEN "Table"
    ELSE IF isnext("BlockTitle", l) THEN "BlockTitle"
    ELSE IF isnext("Paragraph", l) THEN "Paragraph"
    ELSE ""

\* DelimitedBlock.translate for a block whose body is read with
\* read_until: the delimiter, the body up to the closing delimiter of the
\* same file, and the closing delimiter, that is missing at the end of
\* the input
delimited_lines(w, name) ==
    Bind(read(w), LAMBDA first :
      IF first.exc # "" THEN first
      ELSE Bind(read_until(first.w, name, TRUE, RecursionLimit), LAMBDA body :
             IF body.exc # "" THEN body
             ELSE Bind(read_next(body.w), LAMBDA e :
                    IF e.exc # "" THEN e
                    ELSE IF e.result.kind = "none"
                    THEN [e EXCEPT !.w.has_errors = TRUE, !.result = first.result]
                    ELSE Bind(read(e.w), LAMBDA cl :
                           IF cl.exc # "" THEN cl
                           ELSE [cl EXCEPT !.result = first.result]))))

\* The answer of the body of Lex.next, after skip_blank_lines: the world,
\* the cache, and the answer with the line it was given for
Answer(w, pe, pc, a, cached, l) ==
    [w |-> w, exc |-> "", prev_element |-> pe, prev_cursor |-> pc,
     lex |-> [answer |-> a, cached |-> cached, fresh |-> recognize(l), line |-> l,
              consumed |-> -1]]

\* Lex.next(): None at the end of the input, prev_element when prev_cursor
\* equals reader.cursor, else what the recognizers answer, that is cached;
\* a block with the option skip is translated and Lex.next() called again
RECURSIVE Lex_next(_, _, _, _)
Lex_next(w, pe, pc, fuel) ==
    IF fuel = 0 THEN [Answer(w, pe, pc, "none", FALSE, NoLine) EXCEPT !.exc = "RuntimeError"]
    ELSE Bind(skip_blank_lines(w), LAMBDA r :
      IF r.exc # "" THEN [Answer(r.w, pe, pc, "none", FALSE, NoLine) EXCEPT !.exc = r.exc]
      ELSE IF r.result.kind = "none" THEN Answer(r.w, pe, pc, "none", FALSE, NoLine)
      ELSE IF pe # "none" /\ pc = r.w.rd.cursor
      THEN Answer(r.w, pe, pc, pe, TRUE, r.result)
      ELSE IF recognize(r.result) = "SkipBlock"
      THEN Bind(delimited_lines(r.w, "SkipBlock"), LAMBDA t :
             IF t.exc # ""
             THEN [Answer(t.w, pe, pc, "none", FALSE, NoLine) EXCEPT !.exc = t.exc]
             ELSE Lex_next(t.w, pe, pc, fuel - 1))
      ELSE IF recognize(r.result) = ""
      THEN [Answer(r.w, pe, pc, "none", FALSE, NoLine) EXCEPT !.exc = "paragraph expected"]
      ELSE Answer(r.w, recognize(r.result), r.w.rd.cursor, recognize(r.result),
                  FALSE, r.result))

\* A call of Lex.next() by the loop that translates the elements
LexNext ==
    /\ phase = "reading"
    /\ stage = "idle"
    /\ lex.answer = "none"
    /\ \E r \in { Invoke("Lex.next", WorldNow, prev_element, prev_cursor, "none") } :
          /\ Commit(r)
          /\ phase' = IF r.exc # "" THEN "failed"
                      ELSE IF r.lex.answer = "none" THEN "eof" ELSE phase
          /\ lex' = r.lex
          /\ prev_element' = r.prev_element
          /\ prev_cursor' = r.prev_cursor
    /\ UNCHANGED <<files, infile, safe_mode, returned, lastop, call>>
    /\ UNCHANGED <<varsSection, varsAttrs, varsPending, varsRun, varsCallout, varsExit,
                   varsTable, varsConfig>>

\* The cursors of the lines that read() returns, call after call, up to
\* the end of the input or to an exception, which is kept as the last of
\* them
RECURSIVE rest_cursors(_, _)
rest_cursors(w, fuel) ==
    IF fuel = 0 THEN <<Cursor(<<>>, 0, Line("exception", <<>>, 0))>>
    ELSE Bind(read(w), LAMBDA r :
           IF r.exc # "" THEN <<Cursor(<<>>, 0, Line("exception", <<>>, 0))>>
           ELSE IF r.result.kind = "none" THEN <<>>
           ELSE <<[r.w.rd.cursor EXCEPT !.line = r.result]>> \o rest_cursors(r.w, fuel - 1))

\* What next.translate() reads for the element Lex.next() answered: the
\* lines of a delimited block, the first line of a paragraph and its lines
\* up to a terminator, the line of another element
element_lines_peek(w, answer) == read_next(w)
element_lines(w, answer) ==
    IF answer = "DelimitedBlock" THEN delimited_lines(w, "DelimitedBlock")
    ELSE Bind(read(w), LAMBDA first :
           IF first.exc # "" \/ answer # "Paragraph" THEN first
           ELSE Bind(read_until(first.w, "paragraph", FALSE, RecursionLimit), LAMBDA u :
                  IF u.exc # "" THEN u ELSE [u EXCEPT !.result = first.result]))

\* The translation of a list under way: the reader and its globals, the
\* cache of Lex.next, the tags written and the exception raised
Translation(w, pe, pc, written, exc) ==
    [w |-> w, prev_element |-> pe, prev_cursor |-> pc, written |-> written, exc |-> exc,
     result |-> NoLine]

Tag(kind) == [kind |-> kind]

\* The translation t after a call of the reader that returned r
AfterRead(t, r) == [t EXCEPT !.w = r.w, !.exc = r.exc]

\* The translation t after a call of Lex.next() that answered a
AfterLex(t, a) ==
    [t EXCEPT !.w = a.w, !.exc = a.exc, !.prev_element = a.prev_element,
              !.prev_cursor = a.prev_cursor]

\* Lex.next() in the translation t
LexOf(t) == Invoke("Lex.next", t.w, t.prev_element, t.prev_cursor, "none")

\* The loop of List.iscontinued: the attribute lists that follow a line
\* of + are translated
RECURSIVE continued_attributes(_, _)
continued_attributes(t, fuel) ==
    IF fuel = 0 THEN [t EXCEPT !.exc = "RuntimeError"]
    ELSE Bind(LexOf(t), LAMBDA a :
           IF a.exc # "" \/ a.lex.answer # "AttributeList" THEN AfterLex(t, a)
           ELSE Bind(read(a.w), LAMBDA r :
                  IF r.exc # "" THEN AfterRead(AfterLex(t, a), r)
                  ELSE continued_attributes(AfterRead(AfterLex(t, a), r), fuel - 1)))

\* List.iscontinued: the translation after it and its answer
iscontinued(t) ==
    Bind(read_next(t.w), LAMBDA e :
      IF e.exc # "" \/ e.result.kind # "plus"
      THEN [t |-> AfterRead(t, e), continued |-> FALSE]
      ELSE Bind(read(e.w), LAMBDA r :
             IF r.exc # "" THEN [t |-> AfterRead(t, r), continued |-> FALSE]
             ELSE [t |-> continued_attributes(AfterRead(t, r), RecursionLimit),
                   continued |-> TRUE]))

\* The loop 'while True' of List.translate_item_1 for a list that is the
\* only one open: the elements of a continued item are translated, and
\* next.translate() is an error of Python when next is None
RECURSIVE item_elements(_, _, _)
item_elements(t, continued, fuel) ==
    IF fuel = 0 THEN [t EXCEPT !.exc = "RuntimeError"]
    ELSE IF t.exc # "" THEN t
    ELSE Bind(LexOf(t), LAMBDA a :
           IF a.exc # "" \/ a.lex.answer = "List" \/ ~continued THEN AfterLex(t, a)
           ELSE IF a.lex.answer = "none"
           THEN [AfterLex(t, a) EXCEPT !.exc = "AttributeError"]
           ELSE Bind(element_lines(IF a.lex.answer \in {"Title", "BlockTitle"}
                                   THEN [a.w EXCEPT !.has_errors = TRUE] ELSE a.w,
                                   a.lex.answer), LAMBDA r :
                  IF r.exc # "" THEN AfterRead(AfterLex(t, a), r)
                  ELSE Bind(iscontinued(AfterRead(AfterLex(t, a), r)), LAMBDA c :
                         item_elements(c.t, c.continued, fuel - 1))))

\* A tag written by the translation t unless an exception was raised
Written(t, kind) ==
    IF t.exc # "" THEN t ELSE [t EXCEPT !.written = Append(t.written, Tag(kind))]

\* List.translate_item_1 for an item with text: the item start tag, the
\* text up to a terminator, the continuation and the item end tag
translate_item_1(t) ==
    Bind(read_until(t.w, "itemtext", FALSE, RecursionLimit), LAMBDA u :
      IF u.exc # "" THEN AfterRead(Written(t, "item"), u)
      ELSE Bind(iscontinued(AfterRead(Written(t, "item"), u)), LAMBDA c :
             Bind(item_elements(c.t, c.continued, RecursionLimit), LAMBDA item :
               Written(item, "/item"))))

\* The loop 'while Lex.next() is self' of List.translate for a bulleted list
RECURSIVE list_items(_, _)
list_items(t, fuel) ==
    IF fuel = 0 THEN [t EXCEPT !.exc = "RuntimeError"]
    ELSE IF t.exc # "" THEN t
    ELSE Bind(LexOf(t), LAMBDA a :
           IF a.exc # "" \/ a.lex.answer # "List" THEN AfterLex(t, a)
           ELSE Bind(read(a.w), LAMBDA r :
                  IF r.exc # "" THEN AfterRead(AfterLex(t, a), r)
                  ELSE Bind(translate_item_1(AfterRead(AfterLex(t, a), r)), LAMBDA item :
                         list_items(item, fuel - 1))))

\* List.translate: the list start tag, the items and the list end tag
list_translate(w, pe, pc) ==
    Bind(list_items(Written(Translation(w, pe, pc, <<>>, ""), "list"), RecursionLimit),
         LAMBDA items : Written(items, "/list"))

\* next.translate() for the element that Lex.next() answered
translate(w, pe, pc, answer) ==
    IF answer = "List" THEN list_translate(w, pe, pc)
    ELSE Bind(element_lines(w, answer), LAMBDA r :
           [Translation(r.w, pe, pc, <<>>, r.exc) EXCEPT !.result = r.result])

Invoke(method, w, pe, pc, answer) ==
    CASE method = "read" -> Rd_read(w, None, RecursionLimit)
      [] method = "Lex.next" -> Lex_next(w, pe, pc, RecursionLimit)
      [] method = "translate" -> translate(w, pe, pc, answer)

\* next.translate() of the loop that translates the elements
ElementRead ==
    /\ phase = "reading"
    /\ lex.answer # "none"
    /\ \E r \in { Invoke("translate", WorldNow, prev_element, prev_cursor, lex.answer) } :
          /\ Commit(r)
          /\ phase' = IF r.exc # "" THEN "failed" ELSE phase
          /\ returned' = IF r.exc = ""
                         THEN Append(returned, [r.w.rd.cursor EXCEPT !.line = r.result])
                         ELSE returned
          /\ out' = out \o r.written
          /\ prev_element' = r.prev_element
          /\ prev_cursor' = r.prev_cursor
          /\ lex' = [NoAnswer EXCEPT !.consumed =
                        IF r.exc # "" THEN -1
                        ELSE Len(rest_cursors(WorldNow, RecursionLimit))
                                - Len(rest_cursors(r.w, RecursionLimit))]
    /\ UNCHANGED <<files, infile, safe_mode, lastop, call>>
    /\ UNCHANGED <<endtags, ids, section_numbers, doc_level, idprefix, doc_done, last,
                   doctype, backend, diagnostics>>
    /\ UNCHANGED <<varsAttrs, varsPending, varsRun, varsCallout, varsExit, varsTable,
                   varsConfig>>

\* The loop of Reader.read_ahead: up to count lines are read, their
\* cursors kept in putback
RECURSIVE read_ahead_loop(_, _, _, _)
read_ahead_loop(w, count, result, putback) ==
    IF Len(result) >= count THEN [w |-> w, result |-> result, putback |-> putback, exc |-> ""]
    ELSE Bind(read_next(w), LAMBDA e :
           IF e.exc # "" \/ e.result.kind = "none"
           THEN [w |-> e.w, result |-> result, putback |-> putback, exc |-> e.exc]
           ELSE Bind(read(e.w), LAMBDA r :
                  IF r.exc # ""
                  THEN [w |-> r.w, result |-> result, putback |-> putback, exc |-> r.exc]
                  ELSE read_ahead_loop(r.w, count, Append(result, r.result),
                                       Append(putback, r.w.rd.cursor))))

\* Reader.read_ahead(count): the cursors of putback are pushed back, the
\* last first, unless an exception was raised, and the cursor is restored
read_ahead(w, count) ==
    Bind(read_ahead_loop(w, count, <<>>, <<>>), LAMBDA a :
      IF a.exc # ""
      THEN [w |-> [a.w EXCEPT !.rd.cursor = w.rd.cursor], result |-> <<>>, exc |-> a.exc]
      ELSE [w |-> [a.w EXCEPT !.rd.next = a.putback \o a.w.rd.next,
                              !.rd.cursor = w.rd.cursor],
            result |-> a.result, exc |-> ""])

\* The record of a call of read_ahead or of read_until
Call(op, n, pattern, same_file, before, r) ==
    [op |-> op, n |-> n, pattern |-> pattern, same_file |-> same_file,
     before |-> before, after |-> r.w, result |-> r.result, exc |-> r.exc]

\* reader.read_ahead(n), as Title.isnext calls it
ReadAhead(n) ==
    /\ phase = "reading"
    /\ stage = "idle"
    /\ \E r \in { read_ahead(WorldNow, n) } :
          /\ Commit(r)
          /\ phase' = IF r.exc # "" THEN "failed" ELSE phase
          /\ call' = Call("read_ahead", n, "", FALSE, WorldNow, r)
    /\ UNCHANGED <<files, infile, safe_mode, returned, lastop, prev_element, prev_cursor, lex>>
    /\ UNCHANGED <<varsSection, varsAttrs, varsPending, varsRun, varsCallout, varsExit,
                   varsTable, varsConfig>>

\* The system attribute {include:path} of a line of the document
SystemInclude(path) ==
    /\ phase = "reading"
    /\ lastop = NoOp
    /\ \E r \in { system(WorldNow, "include", path, None) } :
          Commit([w |-> r.w, exc |-> ""])
    /\ lastop' = Op("include", 1)
    /\ UNCHANGED <<files, infile, safe_mode, returned, phase>>
    /\ UNCHANGED <<varsSection, varsAttrs, varsMore>>

\* An empty Python dict, and d.update(e)
EmptyDict == [k \in {} |-> <<>>]
update(d, e) == [k \in DOMAIN d \cup DOMAIN e |-> IF k \in DOMAIN e THEN e[k] ELSE d[k]]

\* One entry of a dict
Entry(k, v) == [n \in {k} |-> v]

\* d.get(k)
dict_get(d, k) == IF k \in DOMAIN d THEN Some(d[k]) ELSE None

\* The truth value of a text that may be None
TruthyText(o) == o.def /\ o.val # <<>>

\* parse_attributes(v, dict) for an attribute list of one unquoted word
parse_attributes(v, d) ==
    IF v = <<>> THEN d ELSE update(d, [k \in {"0", "1"} |-> v])

\* A block element with the attributes and the title it was given
Element(kind, given, title) == [kind |-> kind, attrs |-> given, title |-> title]
NoElement == Element("none", EmptyDict, None)

\* The text of an attribute list line, by the group of attributelist-pattern
\* that matched, and the text of a block title line
AttributeLists ==
    { <<"id", <<"x">>>>, <<"id", <<"_", "a">>>>,
      <<"attrlist", <<"v">>>>, <<"attrlist", <<"{", "y", "}">>>> }
BlockTitles == { <<"T">>, <<"{", "y", "}">> }

\* AttributeList.translate
AttributeListTranslate(group, text) ==
    /\ exception = ""
    /\ alist' = IF group = "attrlist"
                THEN Bind(subs_line(text, attrs, None).res, LAMBDA v :
                        IF TruthyText(v) THEN parse_attributes(v.val, alist) ELSE alist)
                ELSE update(alist, [k \in {group} |-> text])
    /\ alist' # alist
    /\ isempty' = FALSE
    /\ UNCHANGED <<btitle, element>>
    /\ UNCHANGED <<varsSection, varsAttrs, varsReader, varsRun, varsCallout,
                   varsTable, varsConfig, varsLex, varsExit>>

\* BlockTitle.translate: a title that substitutes to nothing is blank
BlockTitleTranslate(text) ==
    /\ exception = ""
    /\ btitle' = Bind(subs_line(text, attrs, None).res, LAMBDA v :
                      IF v.def THEN Some(v.val) ELSE Some(<<>>))
    /\ has_warnings' = (has_warnings \/ btitle'.val = <<>>)
    /\ <<btitle', has_warnings'>> # <<btitle, has_warnings>>
    /\ isempty' = FALSE
    /\ UNCHANGED <<alist, element, on_disk, exit_code>>
    /\ UNCHANGED <<varsSection, varsAttrs, varsReader, varsRun, varsCallout, varsTable,
                   varsConfig, varsLex>>

\* Consume without the reset of AttributeList.attrs and BlockTitle.title
Consume_noreset(mode, kind) ==
    IF mode = "keep" THEN UNCHANGED <<alist, btitle, element>>
    ELSE /\ UNCHANGED <<alist, btitle>>
         /\ element' = Element(kind,
                               IF mode = "none" THEN EmptyDict ELSE alist,
                               IF mode = "both" /\ TruthyText(btitle) THEN btitle ELSE None)

\* BlockTitle.consume(d) and AttributeList.consume(d) as the element kind
\* calls them: "both", "attrs" for AttributeList.consume alone, "none" for
\* neither; "keep" for an operation that is no block element
Consume(mode, kind) ==
    IF mode = "keep" THEN UNCHANGED <<alist, btitle, element>>
    ELSE /\ alist' = IF mode = "none" THEN alist ELSE EmptyDict
         /\ btitle' = IF mode = "both" /\ TruthyText(btitle) THEN None ELSE btitle
         /\ element' = Element(kind,
                               IF mode = "none" THEN EmptyDict ELSE alist,
                               IF mode = "both" /\ TruthyText(btitle) THEN btitle ELSE None)

NothingRan == [ran |-> <<>>, error |-> FALSE, exc |-> ""]

\* The end of DelimitedBlock.translate and the reading of a table: at the
\* end of the input self.error('missing closing delimiter') is called
missing_delimiter(r, closing) ==
    IF r.exc = "" /\ ~closing THEN [r EXCEPT !.error = TRUE] ELSE r

\* An operation on a block: what it ran, whether it recorded an error and
\* the exception it raised
BlockOp(kind, r, mode) ==
    /\ \/ phase \in {"translating", "reading"}
       \/ phase = "eof" /\ kind \in {"delimited", "table"}
    /\ stage \in {"idle", "translate", "sections"}
    /\ lastop.n < MaxOps
    /\ Consume(mode, kind)
    /\ isempty' = FALSE
    /\ executed' = executed \o r.ran
    /\ has_errors' = (has_errors \/ r.error)
    /\ exception' = r.exc
    /\ phase' = IF r.exc # "" THEN "failed" ELSE phase
    /\ lastop' = Op(kind, lastop.n + 1)
    /\ UNCHANGED <<files, infile, safe_mode, reader, opened, nopen, returned, unclosed>>
    /\ UNCHANGED <<on_disk, exit_code>>
    /\ UNCHANGED <<varsSection, varsAttrs, varsRun>>

\* An eval, sys or sys2 system attribute of a line
SystemAttribute(name, sysres) ==
    BlockOp("attribute", system_exec(name, sysres), "keep")
       /\ UNCHANGED <<varsCallout, varsTable, varsConfig, varsLex, has_warnings>>

\* An eval, sys or sys2 system block macro
SystemMacro(name, sysres) ==
    BlockOp("macro", system_exec(name, sysres), "keep")
       /\ UNCHANGED <<varsCallout, varsTable, varsConfig, varsLex, has_warnings>>

\* Paragraph.translate
ParagraphTranslate(filter_cmd) ==
    BlockOp("paragraph", paragraph_filter(filter_cmd, attrs), "both")
       /\ UNCHANGED <<varsCallout, varsTable, varsConfig, varsLex, has_warnings>>

\* DelimitedBlock.translate; closing says whether the closing delimiter
\* came before the end of the input: without it the body took every line
\* that was left and the reader is at the end of the input
DelimitedBlockTranslate(name, skip, filter_cmd, closing) ==
    /\ closing <=> phase # "eof"
    /\ BlockOp("delimited",
               missing_delimiter(delimited_block(name, skip, filter_cmd, attrs), closing),
               "both")
    /\ UNCHANGED <<varsCallout, varsTable, varsConfig, varsLex, has_warnings>>

\* The translation of one cell in Table.subs_row
TableCell(filter_cmd) ==
    BlockOp("cell", filter_lines(filter_cmd, attrs), "keep")
       /\ UNCHANGED <<varsCallout, varsTable, varsConfig, varsLex, has_warnings>>

\* The most callouts between two list closes and the most items of a list
MaxCallouts == 3
MaxItems == 2

\* The most calls of the callout map that a run makes
MaxCalls == 5

\* No list was closed yet
NotClosed == [comap |-> EmptyDict, items |-> 0, observed |-> {}]

\* CalloutMap.calloutid: 'CO%d-%d' % (listnumber, calloutindex)
calloutid(number, index) == <<"C", "O">> \o IntToStr(number) \o <<"-">> \o IntToStr(index)

\* CalloutMap.calloutids(listindex): the ids of the callouts that refer to
\* the list item, with a space between two of them
RECURSIVE calloutids_loop(_, _, _)
calloutids_loop(coindexes, number, result) ==
    IF coindexes = <<>> THEN result
    ELSE calloutids_loop(Tail(coindexes), number,
                         result \o <<" ">> \o calloutid(number, Head(coindexes)))

calloutids(map, number, listindex) ==
    IF listindex \in DOMAIN map
    THEN Strip(calloutids_loop(map[listindex], number, <<>>), " ")
    ELSE <<>>

\* CalloutMap.listclose: the callout map after it
listclose_same_number(cm) ==
    [comap |-> EmptyDict, calloutindex |-> 0, listnumber |-> cm.listnumber]
listclose(cm) ==
    [comap |-> EmptyDict, calloutindex |-> 0, listnumber |-> cm.listnumber + 1]

\* A call of CalloutMap.add or the close of a callout list, whose items
\* called calloutids
CalloutCall(op, listindex, coid, coids) ==
    [op |-> op, listindex |-> listindex, coid |-> coid, coids |-> coids]

\* CalloutMap.add(listindex): the callout macro <listindex> of a line
CalloutAdd(listindex) ==
    /\ phase = "translating"
    /\ calloutindex < MaxCallouts
    /\ Len(callouts) < MaxCalls
    /\ calloutindex' = calloutindex + 1
    /\ comap' = update(comap,
                       Entry(listindex,
                             IF listindex \in DOMAIN comap
                             THEN Append(comap[listindex], calloutindex')
                             ELSE <<calloutindex'>>))
    /\ observed' = observed \cup {calloutindex'}
    /\ callouts' = Append(callouts,
                          CalloutCall("add", listindex,
                                      calloutid(listnumber, calloutindex'), <<>>))
    /\ UNCHANGED <<listnumber, closed, varsTable, varsConfig, varsLex>>
    /\ UNCHANGED <<varsSection, varsAttrs, varsReader, varsPending, varsRun, varsExit>>

\* CalloutMap.validate(maxlistindex): the list indexes it warns about
validate(map, maxlistindex) == {i \in DOMAIN map : i > maxlistindex}

\* List.translate for a list of that type with that many items
ListTranslate(type, items) ==
    /\ BlockOp("list", NothingRan, "both")
    /\ IF type = "callout"
       THEN /\ Len(callouts) < MaxCalls
            /\ closed' = [comap |-> comap, items |-> items, observed |-> observed]
            /\ has_warnings' = (\/ has_warnings
                                \/ validate(comap, items) # {}
                                \/ \E i \in 1..items : i \notin DOMAIN comap)
            /\ callouts' = Append(callouts,
                                  CalloutCall("listclose", 0, <<>>,
                                              [i \in 1..items |->
                                                 calloutids(comap, listnumber, i)]))
            /\ \E cm \in { listclose([comap |-> comap, calloutindex |-> calloutindex,
                                       listnumber |-> listnumber]) } :
                  /\ listnumber' = cm.listnumber
                  /\ calloutindex' = cm.calloutindex
                  /\ comap' = cm.comap
            /\ observed' = {}
            /\ UNCHANGED <<varsTable, varsConfig, varsLex>>
       ELSE UNCHANGED <<varsCallout, varsTable, varsConfig, varsLex, has_warnings>>

\* int(s) for a text of digits
DigitVal(c) == CHOOSE d \in 0..9 : Digits[d + 1] = c

RECURSIVE int_of(_, _)
int_of(s, acc) ==
    IF s = <<>> THEN acc ELSE int_of(Tail(s), 10 * acc + DigitVal(Head(s)))

\* The first index from i on that holds no digit
RECURSIVE digits_end(_, _)
digits_end(t, i) == IF At(t, i) \in DigitChars THEN digits_end(t, i + 1) ELSE i

\* A match of the PSV separator ((?P<cellcount>\d+)\*)?\| at index i: its
\* length (0: no match) and int(cellcount or '1')
separator_at(t, i) ==
    IF digits_end(t, i) > i /\ At(t, digits_end(t, i)) = "*"
          /\ At(t, digits_end(t, i) + 1) = "|"
    THEN [len |-> digits_end(t, i) + 2 - i,
          cellcount |-> int_of(SubSeq(t, i, digits_end(t, i) - 1), 0)]
    ELSE IF At(t, i) = "|" THEN [len |-> 1, cellcount |-> 1]
    ELSE [len |-> 0, cellcount |-> 0]

\* 'for i in range(cellcount): cells.append(cell)'
repeat_once(cell, n) == <<cell>>
repeat(cell, n) == [k \in 1..n |-> cell]

\* The loop of Table.parse_psv_dsv over re.finditer(separator, text) and
\* the last cell after it
RECURSIVE psv_scan(_, _, _, _, _, _)
psv_scan(t, i, start, cellcount, cells, cell) ==
    IF i > Len(t) THEN cells \o repeat(cell \o SubSeq(t, start, Len(t)), cellcount)
    ELSE IF separator_at(t, i).len = 0
    THEN psv_scan(t, i + 1, start, cellcount, cells, cell)
    ELSE Bind(separator_at(t, i), LAMBDA mo :
           Bind(cell \o SubSeq(t, start, i - 1), LAMBDA c :
             IF c # <<>> /\ c[Len(c)] = "\\"
             THEN psv_scan(t, i + mo.len, i + mo.len, cellcount, cells,
                           SubSeq(c, 1, Len(c) - 1) \o SubSeq(t, i, i + mo.len - 1))
             ELSE psv_scan(t, i + mo.len, i + mo.len, mo.cellcount,
                           cells \o repeat(c, cellcount), <<>>)))

\* '\n'.join(text)
RECURSIVE join_lines(_)
join_lines(lines) ==
    IF lines = <<>> THEN <<>>
    ELSE IF Len(lines) = 1 THEN lines[1]
    ELSE lines[1] \o <<"\n">> \o join_lines(Tail(lines))

\* Table.parse_psv_dsv for the psv format: the cells, and whether the
\* error 'missing leading separator' was recorded
parse_psv_dsv(lines) ==
    Bind(psv_scan(join_lines(lines), 1, 1, 1, <<>>, <<>>), LAMBDA cells :
      IF cells[1] # <<>> THEN [cells |-> cells, error |-> TRUE]
      ELSE [cells |-> Tail(cells), error |-> FALSE])

\* Table.parse_rows for the psv format
RECURSIVE parse_rows(_, _)
parse_rows(cells, colcount) ==
    IF cells = <<>> THEN <<>>
    ELSE <<SubSeq(cells, 1, IF colcount < Len(cells) THEN colcount ELSE Len(cells))>>
            \o parse_rows(SubSeq(cells, colcount + 1, Len(cells)), colcount)

\* A table not translated yet
NoTable == [source |-> <<>>, text |-> <<>>, colcount |-> 0, rows |-> <<>>]

\* Table.translate after the closing delimiter for a psv table without the
\* cols attribute: the column count is the number of cells of the first
\* line; range() raises ValueError for a step of 0
table_rows(text) ==
    IF text = <<>> THEN [colcount |-> 0, rows |-> <<>>, error |-> FALSE, exc |-> ""]
    ELSE Bind(Len(parse_psv_dsv(<<text[1]>>).cells), LAMBDA colcount :
           Bind(parse_psv_dsv(text), LAMBDA p :
             IF colcount = 0
             THEN [colcount |-> 0, rows |-> <<>>, exc |-> "ValueError",
                   error |-> p.error \/ parse_psv_dsv(<<text[1]>>).error]
             ELSE [colcount |-> colcount, rows |-> parse_rows(p.cells, colcount),
                   exc |-> "", error |-> p.error \/ parse_psv_dsv(<<text[1]>>).error]))

\* A cell of a table source: the separator, with the prefix n* when n is
\* not 1, and the text after it; a line is a sequence of cells
Cell(n, text) == [n |-> n, text |-> text]
render_cell(c) == (IF c.n = 1 THEN <<>> ELSE IntToStr(c.n) \o <<"*">>) \o <<"|">> \o c.text

RECURSIVE render_line(_)
render_line(cells) ==
    IF cells = <<>> THEN <<>> ELSE render_cell(Head(cells)) \o render_line(Tail(cells))

render(source) == [i \in 1..Len(source) |-> render_line(source[i])]

\* The table of the single line |a
PlainTable == << <<Cell(1, <<"a">>)>> >>

\* Table.translate for a psv table with those source lines; closing says
\* whether the closing delimiter came before the end of the input
TableTranslate(closing, source) ==
    /\ closing <=> phase # "eof"
    /\ "cols" \notin DOMAIN alist
    /\ \E t \in { table_rows(render(source)) } :
          /\ BlockOp("table",
                     missing_delimiter([ran |-> <<>>, error |-> t.error, exc |-> t.exc],
                                       closing),
                     "both")
          /\ table' = [source |-> source, text |-> render(source),
                       colcount |-> t.colcount, rows |-> t.rows]
    /\ has_warnings' = (has_warnings \/ source = <<>>)
    /\ UNCHANGED <<varsCallout, varsLex, varsConfig>>

\* Macro.translate for the block macro line text; known says whether the
\* configuration has the macro's -blockmacro section
BlockMacroTranslate(text, known) ==
    BlockOp("blockmacro", NothingRan,
            IF TruthyText(subs_line(text, attrs, None).res) /\ known
            THEN "both" ELSE "none")
       /\ UNCHANGED <<varsCallout, varsTable, varsConfig, varsLex, has_warnings>>

\* ------------------------------------------------------------------------
\* Document attributes: implicit, configuration file and command-line
\* ------------------------------------------------------------------------

K_doctype == <<"d", "o", "c", "t", "y", "p", "e">>
K_docname == <<"d", "o", "c", "n", "a", "m", "e">>
K_outfile == <<"o", "u", "t", "f", "i", "l", "e">>
Stdout == <<"<stdout>">>

\* os.path.basename(p) and os.path.splitext(p)[0]
basename(p) == SubSeq(p, LastSlash(p) + 1, Len(p))

RECURSIVE LastDot(_, _)
LastDot(p, i) ==
    IF i <= LastSlash(p) + 1 THEN 0
    ELSE IF p[i] = "." THEN i ELSE LastDot(p, i - 1)

splitext0(p) ==
    IF LastDot(p, Len(p)) = 0 THEN p ELSE SubSeq(p, 1, LastDot(p, Len(p)) - 1)

\* The implicit attributes Document.init_attrs sets before the update
\* with the configuration file and command-line attributes
implicit_attrs(in) ==
    IF in # Stdin
    THEN update(Entry(K_doctype, Some(<<"a">>)), Entry(K_docname, Some(splitext0(basename(in)))))
    ELSE Entry(K_doctype, Some(<<"a">>))

\* The entries Document.init_attrs sets after that update, from the outfile
outfile_attrs(of) ==
    IF of.def /\ of.val # Stdout
    THEN update(Entry(K_outfile, of), Entry(K_docname, Some(splitext0(basename(of.val)))))
    ELSE EmptyDict

\* Document.init_attrs
init_attrs(d, conf, cmd, in, of) ==
    update(update(update(update(d, implicit_attrs(in)), conf), cmd), outfile_attrs(of))

\* asciidoc(): document.init_attrs() before the configuration is loaded
StartRun ==
    /\ stage = "start"
    /\ doc_attributes' = init_attrs(doc_attributes, conf_attrs, cmd_attrs, infile, outfile)
    /\ stage' = "conf"
    /\ UNCHANGED <<conf_attrs, cmd_attrs, outfile>>
    /\ UNCHANGED <<varsSection, varsAttrs, varsReader, varsPending, varsCallout,
                   varsTable, varsConfig, varsLex, varsExit>>

\* Config.load_sections for a file whose [attributes] section holds
\* name=value, or name! when value is None
LoadSections(name, value) ==
    /\ stage = "conf"
    /\ conf_attrs' = update(conf_attrs, Entry(name, value))
    /\ doc_attributes' = init_attrs(doc_attributes, conf_attrs', cmd_attrs, infile, outfile)
    /\ UNCHANGED <<cmd_attrs, outfile, stage>>
    /\ UNCHANGED <<varsSection, varsAttrs, varsReader, varsPending, varsCallout,
                   varsTable, varsConfig, varsLex, varsExit>>

\* asciidoc() from the init_attrs() after the configuration files to
\* document.outfile = outfile; reader.open(infile) comes next
OpenOutfile(of) ==
    /\ stage = "conf"
    /\ exception = ""
    /\ outfile' = Some(of)
    /\ doc_attributes' = init_attrs(doc_attributes, conf_attrs, cmd_attrs, infile, outfile)
    /\ stage' = "open"
    /\ UNCHANGED <<conf_attrs, cmd_attrs>>
    /\ UNCHANGED <<varsSection, varsAttrs, varsReader, varsPending, varsCallout,
                   varsTable, varsConfig, varsLex, varsExit>>

\* asciidoc() after reader.open(infile): writer.open(outfile) creates the
\* output file, then document.init_attrs() runs before document.translate()
WriterOpen ==
    /\ stage = "open"
    /\ phase = "reading"
    /\ on_disk' = (outfile.val # Stdout)
    /\ doc_attributes' = init_attrs(doc_attributes, conf_attrs, cmd_attrs, infile, outfile)
    /\ stage' = "translate"
    /\ UNCHANGED <<conf_attrs, cmd_attrs, outfile, has_warnings, exit_code>>
    /\ UNCHANGED <<varsSection, varsAttrs, varsReader, varsPending, varsCallout,
                   varsTable, varsConfig, varsLex>>

\* main(): sys.exit(1) after asciidoc() returned with document.has_errors
exit_status_zero(errors) == 0
exit_status(errors) == IF errors THEN 1 ELSE 0

\* asciidoc() returns after document.translate() read the whole input, and
\* main() exits
Finish ==
    /\ stage = "translate"
    /\ phase = "eof"
    /\ exception = ""
    /\ exit_code' = exit_status(has_errors)
    /\ stage' = "exited"
    /\ UNCHANGED <<doc_attributes, conf_attrs, cmd_attrs, outfile, has_warnings, on_disk>>
    /\ UNCHANGED <<varsSection, varsAttrs, varsReader, varsPending, varsCallout,
                   varsTable, varsConfig, varsLex>>

\* asciidoc(), except Exception: an exception raised by the reader or by a
\* block unlinks the output file and exits with 1
Fail ==
    /\ stage \in {"open", "translate"}
    /\ exception # ""
    /\ on_disk' = IF outfile.def /\ outfile.val # Stdout THEN FALSE ELSE on_disk
    /\ exit_code' = 1
    /\ stage' = "exited"
    /\ UNCHANGED <<doc_attributes, conf_attrs, cmd_attrs, outfile, has_warnings>>
    /\ UNCHANGED <<varsSection, varsAttrs, varsReader, varsPending, varsCallout,
                   varsTable, varsConfig, varsLex>>

\* asciidoc(), except (KeyboardInterrupt, SystemExit): the interrupt is
\* printed, asciidoc() returns and main() exits
Interrupt ==
    /\ stage \in {"open", "translate"}
    /\ exception = ""
    /\ exception' = "KeyboardInterrupt"
    /\ phase' = "failed"
    /\ exit_code' = exit_status(has_errors)
    /\ stage' = "exited"
    /\ UNCHANGED <<files, infile, safe_mode, reader, opened, nopen, has_errors, executed,
                   returned, unclosed, lastop>>
    /\ UNCHANGED <<doc_attributes, conf_attrs, cmd_attrs, outfile, has_warnings, on_disk>>
    /\ UNCHANGED <<varsSection, varsAttrs, varsPending, varsCallout, varsTable,
                   varsConfig, varsLex>>

\* AttributeEntry.translate for :name: value, :name!: (value None) and,
\* with conf set, :attributes.name: value
AttributeEntryTranslate(name, value, conf) ==
    /\ stage = "translate"
    /\ IF conf
       THEN /\ conf_attrs' = update(conf_attrs, Entry(name, value))
            /\ doc_attributes' =
                  init_attrs(doc_attributes, conf_attrs', cmd_attrs, infile, outfile)
       ELSE /\ conf_attrs' = conf_attrs
            /\ doc_attributes' =
                  IF Lower(name) \in DOMAIN cmd_attrs THEN doc_attributes
                  ELSE IF value.def
                  THEN update(doc_attributes,
                              Entry(Lower(name),
                                    IF value.val = <<>> THEN value
                                    ELSE Bind(subs_line(value.val, doc_attributes, None).res,
                                              LAMBDA v : IF v.def THEN v ELSE Some(<<>>))))
                  ELSE [k \in DOMAIN doc_attributes \ {Lower(name)} |-> doc_attributes[k]]
    /\ <<doc_attributes', conf_attrs'>> # <<doc_attributes, conf_attrs>>
    /\ isempty' = FALSE
    /\ UNCHANGED <<cmd_attrs, outfile, stage, alist, btitle, element>>
    /\ UNCHANGED <<varsSection, varsAttrs, varsReader, varsCallout, varsTable,
                   varsConfig, varsLex, varsExit>>

\* No run started
IdleRun ==
    /\ doc_attributes = EmptyDict
    /\ conf_attrs = EmptyDict
    /\ cmd_attrs = EmptyDict
    /\ outfile = None
    /\ stage = "idle"

\* No attribute list and no block title pending
IdlePending ==
    /\ alist = EmptyDict
    /\ btitle = None
    /\ element = NoElement
    /\ isempty = TRUE

\* No callout seen
IdleCallout ==
    /\ comap = EmptyDict
    /\ calloutindex = 0
    /\ listnumber = 1
    /\ observed = {}
    /\ closed = NotClosed
    /\ callouts = <<>>

\* No table translated
IdleTable == table = NoTable

\* Lex.next() not called yet
IdleLex ==
    /\ prev_element = "none"
    /\ prev_cursor = NoCursor
    /\ lex = NoAnswer
    /\ call = NoCall

\* The process running, nothing written
IdleExit ==
    /\ has_warnings = FALSE
    /\ on_disk = FALSE
    /\ exit_code = 0

\* ------------------------------------------------------------------------
\* The configuration: special characters and templates (Config)
\* ------------------------------------------------------------------------

\* self.specialchars.get(ch, ch)
specialchar_kept(chars, ch) == <<ch>>
specialchar(chars, ch) == IF ch \in DOMAIN chars THEN chars[ch] ELSE <<ch>>

\* Config.subs_specialchars(s) with the table chars
RECURSIVE subs_specialchars(_, _)
subs_specialchars(chars, s) ==
    IF s = <<>> THEN <<>>
    ELSE specialchar(chars, Head(s)) \o subs_specialchars(chars, Tail(s))

NoSpecial == [s |-> <<>>, once |-> <<>>, twice |-> <<>>, called |-> FALSE]

\* config.subs_specialchars(s), and once more on its result
SubsSpecialchars(s) ==
    /\ ~special.called
    /\ special' = [s |-> s, once |-> subs_specialchars(specialchars, s),
                   twice |-> subs_specialchars(specialchars,
                                               subs_specialchars(specialchars, s)),
                   called |-> TRUE]
    /\ UNCHANGED <<specialchars, sections, expanded>>
    /\ UNCHANGED <<varsSection, varsAttrs, varsReader, varsPending, varsRun, varsCallout,
                   varsExit, varsTable, varsLex>>

\* A line of a configuration section: text, or the macro template::[name]
ConfLine(kind, name) == [kind |-> kind, name |-> name]

\* config.sections, a dictionary in the order of insertion
NoSections == [names |-> <<>>, lines |-> EmptyDict]

\* Config.expand_templates(section): a template line is replaced by the
\* lines its section has now, and dropped with a warning when there is no
\* such section
RECURSIVE expand_lines(_, _)
expand_lines(secs, ls) ==
    IF ls = <<>> THEN <<>>
    ELSE (IF Head(ls).kind = "template"
          THEN IF Head(ls).name \in DOMAIN secs.lines THEN secs.lines[Head(ls).name]
               ELSE <<>>
          ELSE <<Head(ls)>>) \o expand_lines(secs, Tail(ls))

expand_templates(secs, section) == expand_lines(secs, secs.lines[section])

\* The loop of Config.expand_all_templates from the i-th section on
RECURSIVE expand_from(_, _)
expand_from(secs, i) ==
    IF i > Len(secs.names) THEN secs
    ELSE expand_from([secs EXCEPT !.lines[secs.names[i]] =
                                      expand_templates(secs, secs.names[i])], i + 1)

\* Config.expand_all_templates
expand_all_templates(secs) == expand_from(secs, 1)

\* config.expand_all_templates(), as Document.translate calls it
ExpandAllTemplates ==
    /\ Len(expanded) < 2
    /\ sections' = expand_all_templates(sections)
    /\ expanded' = Append(expanded, expand_all_templates(sections))
    /\ UNCHANGED <<specialchars, special>>
    /\ UNCHANGED <<varsSection, varsAttrs, varsReader, varsPending, varsRun, varsCallout,
                   varsExit, varsTable, varsLex>>

\* No configuration loaded
IdleConfig ==
    /\ specialchars = EmptyDict
    /\ special = NoSpecial
    /\ sections = NoSections
    /\ expanded = <<>>

IdleMore ==
    /\ IdlePending /\ IdleRun /\ IdleCallout /\ IdleExit /\ IdleTable /\ IdleLex
    /\ IdleConfig

\* The reader and the safe mode left alone
QuietReader ==
    /\ files = Files(<<>>, <<>>)
    /\ infile = Stdin
    /\ safe_mode = TRUE
    /\ reader = NewReader
    /\ opened = <<>>
    /\ nopen = 0
    /\ has_errors = FALSE
    /\ executed = <<>>
    /\ exception = ""
    /\ returned = <<>>
    /\ unclosed = 0
    /\ lastop = NoOp
    /\ phase = "idle"

IdleReader == QuietReader /\ IdleMore

\* ------------------------------------------------------------------------
\* Section driver
\* ------------------------------------------------------------------------

MaxSections == 3

Levels == 0..4

\* Section titles the documents are built from
Titles == { <<"a">>, <<"A">>, <<"a", " ", "-", "2">>, <<" ", "-">> }

\* Values of the idprefix attribute (None: not defined)
Prefixes == { None, Some(<<>>), Some(<<"_", "a">>) }

\* Title.getnumber(level): <<number, section_numbers after the call>>
RECURSIVE getnumber_from(_, _, _, _)
getnumber_from(l, level, number, nums) ==
    IF l > 4 THEN <<number, nums>>
    ELSE IF l = 0 THEN getnumber_from(l + 1, level, number, nums)
    ELSE IF l < level THEN
        getnumber_from(l + 1, level, number \o IntToStr(nums[l]) \o <<".">>, nums)
    ELSE IF l = level THEN
        getnumber_from(l + 1, level, number \o IntToStr(nums[l] + 1) \o <<".">>,
                       [nums EXCEPT ![l] = nums[l] + 1])
    ELSE getnumber_from(l + 1, level, number, [nums EXCEPT ![l] = 0])

\* getnumber without the reset of the deeper levels
RECURSIVE getnumber_noreset_from(_, _, _, _)
getnumber_noreset_from(l, level, number, nums) ==
    IF l > 4 THEN <<number, nums>>
    ELSE IF l = 0 THEN getnumber_noreset_from(l + 1, level, number, nums)
    ELSE IF l < level THEN
        getnumber_noreset_from(l + 1, level, number \o IntToStr(nums[l]) \o <<".">>, nums)
    ELSE IF l = level THEN
        getnumber_noreset_from(l + 1, level, number \o IntToStr(nums[l] + 1) \o <<".">>,
                               [nums EXCEPT ![l] = nums[l] + 1])
    ELSE getnumber_noreset_from(l + 1, level, number, nums)

getnumber_noreset(level, nums) == getnumber_noreset_from(0, level, <<>>, nums)

getnumber(level, nums) == getnumber_from(0, level, <<>>, nums)

\* Section.setlevel(level): <<endtags after the call, end tags written>>
RECURSIVE setlevel_loop(_, _, _)
setlevel_loop(level, tags, written) ==
    IF tags # <<>> /\ tags[Len(tags)][1] >= level
    THEN setlevel_loop(level, SubSeq(tags, 1, Len(tags) - 1),
                       Append(written, [kind |-> "etag", sect |-> tags[Len(tags)][2],
                                        level |-> tags[Len(tags)][1]]))
    ELSE <<tags, written>>

\* setlevel closing only the sections of a strictly greater level
RECURSIVE setlevel_loop_gt(_, _, _)
setlevel_loop_gt(level, tags, written) ==
    IF tags # <<>> /\ tags[Len(tags)][1] > level
    THEN setlevel_loop_gt(level, SubSeq(tags, 1, Len(tags) - 1),
                          Append(written, [kind |-> "etag", sect |-> tags[Len(tags)][2],
                                           level |-> tags[Len(tags)][1]]))
    ELSE <<tags, written>>

setlevel_gt(level, tags) == setlevel_loop_gt(level, tags, <<>>)

setlevel(level, tags) == setlevel_loop(level, tags, <<>>)

\* Section.savetag(level, etag)
savetag_bottom(level, etag, tags) == << <<level, etag>> >> \o tags
savetag(level, etag, tags) == Append(tags, <<level, etag>>)

\* The base_ident of Section.gen_id before the prefix is added
base_ident(title) == Lower(Strip(SubNonAlnumRuns(title), "_"))

\* document.attributes.get('idprefix', '_')
get_idprefix(p) == IF p.def THEN p.val ELSE <<"_">>

\* The ident gen_id tries in iteration i
ident_at(base, i) == IF i = 1 THEN base ELSE base \o <<"_">> \o IntToStr(i)

InSeq(x, s) == \E i \in 1..Len(s) : s[i] = x

RECURSIVE gen_id_loop(_, _, _)
gen_id_loop(base, used, i) ==
    IF ~InSeq(ident_at(base, i), used) THEN ident_at(base, i)
    ELSE gen_id_loop(base, used, i + 1)

\* gen_id without the search for an unused ident
gen_id_nocheck(title, prefix, used) == get_idprefix(prefix) \o base_ident(title)

\* Section.gen_id(title): the ident returned (the caller appends it to ids)
gen_id(title, prefix, used) ==
    gen_id_loop(get_idprefix(prefix) \o base_ident(title), used, 1)

\* Section.ids after gen_id returned ident
gen_id_record(used, ident) == Append(used, ident)

NSections == Cardinality({i \in 1..Len(out) : out[i].kind = "stag"})

\* The messages of the structural checks
OutOfSequence == "section title out of sequence"
Level0Section == "only book doctypes can contain level 0 sections"
EmptySection == "empty section is not valid"
TitleInBody == "title not permitted in sidebar body"
ManpageTitle == "manpage document title is mandatory"
SectionErrors == {Level0Section, EmptySection, TitleInBody, ManpageTitle}

\* The end of Section.translate_body: the error of a body that held no
\* element, unless the title that follows opens a sub-section; nxt says
\* whether an element follows, title_level is Title.level.  The titles of
\* the documents are plain, so Title.sectname is never 'sect-index'.
empty_section(empty, nxt, title_level) ==
    IF (empty /\ ~(nxt /\ title_level > doc_level)) /\ backend = "docbook"
    THEN {EmptySection} ELSE {}

\* The messages of one Section.translate() for a title of level L: the end
\* of the Section.translate_body of the section before it, which the title
\* terminates, and the checks of the level.  The titles are plain, so the
\* previous section is no preface, appendix or other special section.
section_diagnostics(L) ==
    (IF NSections > 0 THEN empty_section(isempty, TRUE, L) ELSE {})
       \cup (IF L = 0 /\ doctype # "book" THEN {Level0Section} ELSE {})
       \cup (IF L > doc_level + 1 THEN {OutOfSequence} ELSE {})

\* Section.translate() for a title of level L; sectids says whether the
\* sectids attribute is defined, explicit is AttributeList.attrs.get('id'),
\* the id a preceding attribute list gave (None when it gave none)
SectionTranslate(L, title, sectids, explicit) ==
    /\ ~doc_done
    /\ stage \in {"idle", "sections"}
    /\ NSections < MaxSections
    /\ \E d \in { section_diagnostics(L) } :
          /\ diagnostics' = diagnostics \cup d
          /\ has_errors' = (has_errors \/ d \cap SectionErrors # {})
          /\ has_warnings' = (has_warnings \/ OutOfSequence \in d)
    /\ LET n == NSections + 1
           gen == sectids /\ ~explicit.def
           id == IF gen THEN Some(gen_id(title, idprefix, ids)) ELSE explicit
           sl == setlevel(L, endtags)
           gn == getnumber(L, section_numbers)
       IN /\ ids' = IF gen THEN gen_id_record(ids, id.val) ELSE ids
          /\ doc_level' = L
          /\ section_numbers' = gn[2]
          /\ endtags' = savetag(L, n, sl[1])
          /\ out' = out \o sl[2] \o
                    << [kind |-> "stag", sect |-> n, level |-> L, id |-> id] >>
          /\ last' = [level |-> L, title |-> title, sectnum |-> gn[1],
                      gen |-> gen, id |-> id, prefix |-> idprefix, sect |-> n]
    /\ explicit = dict_get(alist, "id")
    /\ Consume("attrs", "section")
    /\ isempty' = TRUE
    /\ UNCHANGED <<idprefix, doc_done, doctype, backend, on_disk, exit_code>>
    /\ UNCHANGED <<varsAttrs, varsReaderRest, varsRun, varsCallout, varsTable, varsConfig, varsLex>>

\* Document.translate() up to the first section for a document without a
\* header: the title a manpage must have is missing
DocumentTranslate ==
    /\ stage = "translate"
    /\ exception = ""
    /\ \E d \in { IF doctype = "manpage" THEN {ManpageTitle} ELSE {} } :
          /\ diagnostics' = diagnostics \cup d
          /\ has_errors' = (has_errors \/ d # {})
    /\ stage' = "sections"
    /\ UNCHANGED <<endtags, ids, section_numbers, doc_level, idprefix, out, doc_done, last,
                   doctype, backend>>
    /\ UNCHANGED <<doc_attributes, conf_attrs, cmd_attrs, outfile>>
    /\ UNCHANGED <<varsAttrs, varsReaderRest, varsPending, varsCallout, varsTable,
                   varsConfig, varsLex,
                   varsExit>>

\* The elements of the body of a sidebar: paragraphs and titles
BodyParagraph == [kind |-> "paragraph", level |-> 0]
BodyTitle(L) == [kind |-> "title", level |-> L]

\* Title.level after the titles of a body were translated
RECURSIVE title_level(_, _)
title_level(body, level) ==
    IF body = <<>> THEN level
    ELSE title_level(Tail(body),
                     IF Head(body).kind = "title" THEN Head(body).level ELSE level)

\* Section.translate_body(terminator) for the body of a delimited block
body_diagnostics(body) ==
    (IF \E i \in 1..Len(body) : body[i].kind = "title" THEN {TitleInBody} ELSE {})
       \cup empty_section(body = <<>>, TRUE, last.level)

\* DelimitedBlock.translate for a block with the sectionbody option, a
\* sidebar, whose closing delimiter follows that body
SectionBodyBlock(body) ==
    /\ phase \in {"translating", "reading"}
    /\ stage \in {"idle", "sections"}
    /\ ~doc_done
    /\ lastop.n < MaxOps
    /\ Consume("both", "delimited")
    /\ isempty' = FALSE
    /\ \E d \in { body_diagnostics(body) } :
          /\ diagnostics' = diagnostics \cup d
          /\ has_errors' = (has_errors \/ d # {})
    /\ last' = [last EXCEPT !.level = title_level(body, last.level)]
    /\ lastop' = Op("delimited", lastop.n + 1)
    /\ UNCHANGED <<endtags, ids, section_numbers, doc_level, idprefix, out, doc_done,
                   doctype, backend>>
    /\ UNCHANGED <<files, infile, safe_mode, reader, opened, nopen, executed, exception,
                   returned, unclosed, phase>>
    /\ UNCHANGED <<varsAttrs, varsRun, varsCallout, varsTable, varsConfig, varsLex, varsExit>>

\* AttributeEntry.translate() for :idprefix: value / :idprefix!:
SetIdPrefix(p) ==
    /\ ~doc_done
    /\ p # idprefix
    /\ idprefix' = p
    /\ UNCHANGED <<endtags, ids, section_numbers, doc_level, out, last, doc_done>>
    /\ UNCHANGED <<doctype, backend, diagnostics>>
    /\ UNCHANGED <<varsAttrs, varsReader, varsMore>>

\* The tail of Document.translate(): Section.setlevel(0)
DocumentEnd ==
    /\ ~doc_done
    /\ stage \in {"idle", "sections"}
    /\ \E d \in { IF NSections > 0 THEN empty_section(isempty, FALSE, last.level) ELSE {} } :
          /\ diagnostics' = diagnostics \cup d
          /\ has_errors' = (has_errors \/ d # {})
    /\ LET sl == setlevel(0, endtags)
       IN /\ endtags' = sl[1]
          /\ out' = out \o sl[2]
          /\ doc_level' = 0
    /\ doc_done' = TRUE
    /\ UNCHANGED <<ids, section_numbers, idprefix, last, doctype, backend>>
    /\ UNCHANGED <<varsAttrs, varsReaderRest, varsMore>>


NoTitle ==
    [level |-> 0, title |-> <<>>, sectnum |-> <<>>, gen |-> FALSE, id |-> None,
     prefix |-> None, sect |-> 0]

\* The section driver before the first title
IdleSection ==
    /\ endtags = <<>>
    /\ ids = <<>>
    /\ section_numbers = [l \in Levels |-> 0]
    /\ doc_level = 0
    /\ idprefix = None
    /\ out = <<>>
    /\ doc_done = FALSE
    /\ last = NoTitle
    /\ doctype = "article"
    /\ backend = "xhtml11"
    /\ diagnostics = {}

\* The attribute evaluator left alone
IdleAttrs ==
    /\ attrs = [n \in AttrNames |-> None]
    /\ pieces = <<>>
    /\ line = <<>>
    /\ subst = NotCalled

InitSection == IdleSection /\ IdleAttrs /\ IdleReader

\* Documents whose sections vary in level and in how they get their id
NextSection ==
    \/ \E L \in Levels, s \in BOOLEAN, e \in {None, Some(<<"x">>)} :
          SectionTranslate(L, <<"a">>, s, e)
    \/ AttributeListTranslate("id", <<"x">>)
    \/ DocumentEnd

SpecSection == InitSection /\ [][NextSection]_vars

\* Documents whose sections vary in title, with :idprefix: entries between
NextIds ==
    \/ \E t \in Titles : SectionTranslate(1, t, TRUE, None)
    \/ \E p \in Prefixes : SetIdPrefix(p)

SpecIds == InitSection /\ [][NextIds]_vars

\* The ids an attribute list ([[x]] or [id="..."]) gives a section
ExplicitIds == { None, Some(<<"x">>), Some(<<"_", "a">>) }

\* Documents whose sections get their id from gen_id or an attribute list
NextSectIds ==
    \/ \E s \in BOOLEAN, e \in ExplicitIds : SectionTranslate(1, <<"a">>, s, e)
    \/ \E e \in ExplicitIds \ {None} : AttributeListTranslate("id", e.val)
    \/ DocumentEnd

SpecSectIds == InitSection /\ [][NextSectIds]_vars

\* ------------------------------------------------------------------------
\* Specifications of the attribute evaluator
\* ------------------------------------------------------------------------

InitAttrs ==
    /\ IdleSection
    /\ IdleReader
    /\ attrs \in AttrMaps
    /\ pieces = <<>>
    /\ line = <<>>
    /\ subst = NotCalled

\* Lines of literals, simple, escaped, nested, conditional and system
\* references
NextAttrs ==
    \/ \E p \in LiteralPieces \cup SimplePieces \cup EscapedPieces \cup NestedPieces
                 \cup CondPieces \cup SystemPieces :
          AppendPiece(p) /\ UNCHANGED <<varsSection, varsReader, varsMore>>
    \/ \E r \in SysResults : SubsAttrs(r) /\ UNCHANGED <<varsSection, varsReader, varsMore>>

SpecAttrs == InitAttrs /\ [][NextAttrs]_vars

\* Lines of literals, simple references and '@' / '$' references
NextRegex ==
    \/ \E p \in LiteralPieces \cup SimplePieces \cup RegexPieces :
          AppendPiece(p) /\ UNCHANGED <<varsSection, varsReader, varsMore>>
    \/ SubsAttrs(None) /\ UNCHANGED <<varsSection, varsReader, varsMore>>

SpecRegex == InitAttrs /\ [][NextRegex]_vars

\* ------------------------------------------------------------------------
\* Properties of the attribute evaluator
\* ------------------------------------------------------------------------

\* No attribute value holds a brace or a backslash
PlainValues ==
    \A n \in AttrNames :
       attrs[n].def => \A k \in 1..Len(attrs[n].val) : attrs[n].val[k] \notin {"{", "}", "\\"}

\* What one reference of a line is to become: a text, or None for 'the
\* whole line is dropped'
Expected(p) ==
    LET defined == attrs[p.name].def
    IN CASE p.kind = "lit" -> Some(p.val)
         [] p.kind = "simple" -> IF defined THEN attrs[p.name] ELSE None
         [] p.kind \in {"esc_open", "esc_close"} -> Some(<<"{">> \o p.name \o <<"}">>)
         [] p.kind = "cond" /\ p.op = "=" -> IF defined THEN attrs[p.name] ELSE Some(p.val)
         [] p.kind = "cond" /\ p.op = "?" -> IF defined THEN Some(p.val) ELSE Some(<<>>)
         [] p.kind = "cond" /\ p.op = "!" -> IF defined THEN Some(<<>>) ELSE Some(p.val)
         [] p.kind = "cond" /\ p.op = "#" -> IF defined THEN Some(p.val) ELSE None
         [] p.kind = "cond" /\ p.op = "%" -> IF defined THEN None ELSE Some(p.val)

RECURSIVE ExpectedLine(_)
ExpectedLine(ps) ==
    IF ps = <<>> THEN Some(<<>>)
    ELSE LET h == Expected(Head(ps))
             t == ExpectedLine(Tail(ps))
         IN IF h.def /\ t.def THEN Some(h.val \o t.val) ELSE None

KindsAmong(S) == \A k \in 1..Len(pieces) : pieces[k].kind \in S

\* The line holds {n}, with no backslash before the opening or the closing
\* brace
HasUnescapedRef(n) ==
    \E i \in 1..(Len(line) - Len(n) - 1) :
       /\ SubSeq(line, i, i + Len(n) + 1) = <<"{">> \o n \o <<"}">>
       /\ At(line, i - 1) # "\\"

C1_WitnessDrop ==
    /\ subst.called
    /\ pieces = << Piece("simple", NameX, "", <<>>), Piece("simple", NameY, "", <<>>) >>
    /\ attrs[NameX].def /\ ~attrs[NameY].def
    /\ ~subst.res.def

\* C6: a line of literals and conditional references {name OP value} is
\* dropped when one of them says so ('#' with name undefined, '%' with
\* name defined) and else becomes the text with each reference replaced:
\* '=' value of name / value, '?' value / empty, '!' empty / value,
\* '#' value / -, '%' - / value (name defined / undefined).
C6_ConditionalTable ==
    (subst.called /\ PlainValues /\ KindsAmong({"lit", "cond"}))
       => subst.res = ExpectedLine(pieces)

\* '{x?b}{y?c}' with x defined and y undefined becomes 'b'
C6_Witness ==
    /\ subst.called
    /\ pieces = << Piece("cond", NameX, "?", <<"b">>), Piece("cond", NameY, "?", <<"c">>) >>
    /\ attrs[NameX].def /\ ~attrs[NameY].def
    /\ subst.res = Some(<<"b">>)

\* What a '@' or '$' reference with value pattern:v1[:v2] is to become;
\* dollar_empty_v1 is what '$' gives on a match with an empty v1 and a v2
ExpectedRegex(p, dollar_empty_v1) ==
    LET v == split_colon(p.val, 1, <<>>)
        matches == IF v[1] = <<".">> THEN Len(attrs[p.name].val) = 1
                   ELSE attrs[p.name].val = v[1]
    IN IF ~attrs[p.name].def THEN None
       ELSE IF p.op = "@"
       THEN IF matches THEN Some(v[2]) ELSE IF Len(v) = 3 THEN Some(v[3]) ELSE Some(<<>>)
       ELSE IF matches
            THEN IF Len(v) = 3 /\ v[2] = <<>> THEN dollar_empty_v1 ELSE Some(v[2])
            ELSE IF Len(v) = 3 THEN Some(v[3]) ELSE None

RECURSIVE ExpectedRegexLine(_, _)
ExpectedRegexLine(ps, dollar_empty_v1) ==
    IF ps = <<>> THEN Some(<<>>)
    ELSE LET h == IF Head(ps).kind = "regex"
                  THEN ExpectedRegex(Head(ps), dollar_empty_v1)
                  ELSE Expected(Head(ps))
             t == ExpectedRegexLine(Tail(ps), dollar_empty_v1)
         IN IF h.def /\ t.def THEN Some(h.val \o t.val) ELSE None

\* The '@' and '$' references of the line have a value of two or three parts
WellFormedRegex ==
    \A k \in 1..Len(pieces) :
       pieces[k].kind = "regex" => Len(split_colon(pieces[k].val, 1, <<>>)) \in {2, 3}

\* C7 as stated: '$' yields v1 whenever the value matches.
C7_DollarAlwaysV1 ==
    (subst.called /\ PlainValues /\ WellFormedRegex /\ KindsAmong({"lit", "regex"}))
       => subst.res = ExpectedRegexLine(pieces, Some(<<>>))

\* C7 amended: '@' yields v1 on a match, else v2 if given, else the empty
\* text; '$' yields v1 on a match, except that an empty v1 with a v2 given
\* drops the line on a match, and on no match yields v2 if given, else drops
\* the line; for both an undefined name drops the line.
C7_RegexConditionals ==
    (subst.called /\ PlainValues /\ WellFormedRegex /\ KindsAmong({"lit", "regex"}))
       => subst.res = ExpectedRegexLine(pieces, None)

\* 'a{x$a:b:c}' with x = 'a' becomes 'ab'
C7_Witness ==
    /\ subst.called
    /\ pieces = << Piece("lit", <<>>, "", <<"a">>),
                   Piece("regex", NameX, "$", <<"a", ":", "b", ":", "c">>) >>
    /\ attrs[NameX] = Some(<<"a">>)
    /\ subst.res = Some(<<"a", "b">>)

\* ------------------------------------------------------------------------
\* Properties of the section driver
\* ------------------------------------------------------------------------

\* C8: when Section.translate writes the start tag of a title of level L,
\* the end tag of every section started earlier with a level >= L has
\* already been written, and none of them is left on the stack.
C8_EndTagsBeforeStartTag ==
    /\ \A p \in 1..Len(out) :
          out[p].kind = "stag" =>
             \A q \in 1..(p - 1) :
                (out[q].kind = "stag" /\ out[q].level >= out[p].level) =>
                   \E r \in (q + 1)..(p - 1) :
                      out[r].kind = "etag" /\ out[r].sect = out[q].sect
    /\ \A i \in 1..(Len(endtags) - 1) : endtags[i][1] < endtags[Len(endtags)][1]

\* A level-1 title arrives while a level-1 and a level-2 section are open:
\* both end tags are written right before the new start tag.
C8_Witness ==
    \E p \in 3..Len(out) :
       /\ out[p].kind = "stag" /\ out[p].level = 1
       /\ out[p - 1].kind = "etag" /\ out[p - 1].level = 1
       /\ out[p - 2].kind = "etag" /\ out[p - 2].level = 2

\* '1.2.3.' for the counters of the levels from..to
RECURSIVE Dotted(_, _, _)
Dotted(nums, from, to) ==
    IF from > to THEN <<>>
    ELSE IntToStr(nums[from]) \o <<".">> \o Dotted(nums, from + 1, to)

Translated == last'.sect # last.sect

\* C9 as stated: entering a section of any level k in 0..4 increments
\* counter[k], resets the counters of the levels above k, and the sectnum
\* is the dotted counters of levels 0..k.
C9_AllLevels ==
    [][Translated =>
          LET k == last'.level
          IN /\ section_numbers'[k] = section_numbers[k] + 1
             /\ \A j \in Levels : j > k => section_numbers'[j] = 0
             /\ \A j \in Levels : j < k => section_numbers'[j] = section_numbers[j]
             /\ last'.sectnum = Dotted(section_numbers', 0, k)]_vars

\* C9 amended: for a level k in 1..4 counter[k] is incremented, the deeper
\* counters are reset and the sectnum is the dotted counters of levels 1..k
\* (the level-0 counter is no part of it); a level-0 title leaves counter[0]
\* as it is, resets the counters of levels 1..4 and has an empty sectnum.
C9_Numbering ==
    [][Translated =>
          LET k == last'.level
          IN /\ section_numbers'[k] = section_numbers[k] + (IF k = 0 THEN 0 ELSE 1)
             /\ \A j \in Levels : j > k => section_numbers'[j] = 0
             /\ \A j \in Levels : j < k => section_numbers'[j] = section_numbers[j]
             /\ last'.sectnum = Dotted(section_numbers', 1, k)]_vars

\* The second level-1 section, after the first one had a level-2 section:
\* it is numbered '2.' and the level-2 counter is back at 0.
C9_Witness ==
    /\ last.level = 1
    /\ last.sectnum = <<"2", ".">>
    /\ section_numbers[2] = 0
    /\ \E p \in 1..Len(out) : out[p].kind = "stag" /\ out[p].level = 2

NoDuplicates(s) == \A i, j \in 1..Len(s) : i # j => s[i] # s[j]

\* The lowercased [a-zA-Z0-9]+ runs of each title joined by '_'
ExpectedBase(title) ==
    CASE title = <<"a">> -> <<"a">>
      [] title = <<"A">> -> <<"a">>
      [] title = <<"a", " ", "-", "2">> -> <<"a", "_", "2">>
      [] title = <<" ", "-">> -> <<>>

\* C10: the ids gen_id returned are pairwise distinct, and each is
\* prefix + base when that was unused, else prefix + base + '_k' for the
\* smallest k >= 2 that was unused; the returned id is recorded.
C10_GenIdUnique ==
    /\ NoDuplicates(ids)
    /\ last.gen =>
          LET used == SubSeq(ids, 1, Len(ids) - 1)
              base == (IF last.prefix.def THEN last.prefix.val ELSE <<"_">>)
                         \o ExpectedBase(last.title)
              WithK(k) == base \o <<"_">> \o IntToStr(k)
          IN /\ ids # <<>>
             /\ last.id = Some(ids[Len(ids)])
             /\ IF ~InSeq(base, used) THEN last.id.val = base
                ELSE \E k \in 2..(Len(ids) + 1) :
                        /\ last.id.val = WithK(k)
                        /\ ~InSeq(WithK(k), used)
                        /\ \A j \in 2..(k - 1) : InSeq(WithK(j), used)

\* 'a' is translated when '_a' and '_a_2' (from the title 'a -2') are both
\* taken: the id is '_a_3'.
C10_Witness ==
    /\ last.gen
    /\ last.title = <<"a">>
    /\ last.id = Some(<<"_", "a", "_", "3">>)
    /\ InSeq(<<"_", "a", "_", "2">>, ids)

\* The id attributes of the section start tags written so far
EmittedIds ==
    LET tags == SelectSeq(out, LAMBDA o : o.kind = "stag" /\ o.id.def)
    IN [i \in 1..Len(tags) |-> tags[i].id.val]

\* C11: no two sections are emitted with the same id attribute, whether
\* the id was generated by gen_id or given by an attribute list.
C11_SectionIdsUnique == NoDuplicates(EmittedIds)

\* ------------------------------------------------------------------------
\* Specifications of the reader and of the safe mode
\* ------------------------------------------------------------------------

\* A document before reader.open, with the attributes of a reading run
FreshDocument(mains, included, inputs) ==
    /\ IdleSection
    /\ attrs = ReaderAttrs
    /\ pieces = <<>>
    /\ line = <<>>
    /\ subst = NotCalled
    /\ \E main \in mains, a \in included : files = Files(main, a)
    /\ infile \in inputs
    /\ safe_mode \in BOOLEAN
    /\ reader = NewReader
    /\ opened = <<>>
    /\ nopen = 0
    /\ has_errors = FALSE
    /\ executed = <<>>
    /\ exception = ""
    /\ returned = <<>>
    /\ unclosed = 0
    /\ lastop = NoOp
    /\ phase = "start"

InitDocument(mains, included, inputs) ==
    FreshDocument(mains, included, inputs) /\ IdleMore

\* Documents of text and include macros, read from a file or from stdin
InitInclude == InitDocument(Docs(IncludeBlocks, MaxBlocks), IncludedFiles, {PathM, Stdin})

NextInclude ==
    \/ Open
    \/ Read(None)
    \/ \E p \in {PathA, PathX} : SystemInclude(p)

SpecInclude == InitInclude /\ [][NextInclude]_vars

\* Documents of text, conditional, include and executable macros
InitCond == InitDocument(Docs(CondBlocks, MaxBlocks), CondIncludedFiles, {PathM})

NextCond ==
    \/ Open
    \/ \E r \in SysResults : Read(r)

SpecCond == InitCond /\ [][NextCond]_vars

\* Blocks and executable attributes and macros in or out of safe mode
InitSafe ==
    /\ IdleSection
    /\ attrs = ReaderAttrs
    /\ pieces = <<>>
    /\ line = <<>>
    /\ subst = NotCalled
    /\ files = Files(<<>>, <<>>)
    /\ infile = PathM
    /\ safe_mode \in BOOLEAN
    /\ reader = NewReader
    /\ opened = <<>>
    /\ nopen = 0
    /\ has_errors = FALSE
    /\ executed = <<>>
    /\ exception = ""
    /\ returned = <<>>
    /\ unclosed = 0
    /\ lastop = NoOp
    /\ phase = "translating"
    /\ IdleMore

ExecNames == {"eval", "sys", "sys2"}
BlockNames == {"blockdef-backend", "blockdef-listing"}

NextSafe ==
    \/ \E n \in ExecNames, r \in SysResults : SystemAttribute(n, r)
    \/ \E n \in ExecNames, r \in SysResults : SystemMacro(n, r)
    \/ \E f \in FilterCmds : ParagraphTranslate(f)
    \/ \E n \in BlockNames, k \in BOOLEAN, f \in FilterCmds :
          DelimitedBlockTranslate(n, k, f, TRUE)
    \/ \E f \in FilterCmds : TableCell(f)

SpecSafe == InitSafe /\ [][NextSafe]_vars

\* Runs with command-line attributes, configuration file attributes and
\* attribute entries of the same names
CmdAttrs ==
    { EmptyDict, Entry(NameX, Some(<<"c">>)), Entry(NameX, None),
      Entry(K_docname, Some(<<"c">>)) }
Outfiles == { <<"/", "d", "/", "o", ".", "h">>, Stdout }
EntryValues == { Some(<<"e">>), Some(<<"{", "y", "}">>), None }

InitCmd ==
    /\ IdleSection
    /\ IdleAttrs
    /\ IdlePending
    /\ files = Files(<<>>, <<>>)
    /\ infile \in {PathM, Stdin}
    /\ safe_mode = TRUE
    /\ reader = NewReader
    /\ opened = <<>>
    /\ nopen = 0
    /\ has_errors = FALSE
    /\ executed = <<>>
    /\ exception = ""
    /\ returned = <<>>
    /\ unclosed = 0
    /\ lastop = NoOp
    /\ phase = "start"
    /\ doc_attributes = EmptyDict
    /\ conf_attrs = EmptyDict
    /\ cmd_attrs \in CmdAttrs
    /\ outfile = None
    /\ stage = "start"
    /\ IdleCallout
    /\ IdleTable
    /\ IdleConfig
    /\ IdleLex
    /\ IdleExit

NextCmd ==
    \/ StartRun
    \/ \E n \in {NameX, K_docname} : LoadSections(n, Some(<<"f">>))
    \/ \E of \in Outfiles : OpenOutfile(of)
    \/ Open
    \/ WriterOpen
    \/ \E n \in {NameX, K_docname}, v \in EntryValues, c \in BOOLEAN :
          (c => n = NameX) /\ AttributeEntryTranslate(n, v, c)

SpecCmd == InitCmd /\ [][NextCmd]_vars

\* Whole runs: documents of text, an ifdef with or without its endif and an
\* include of a file outside the directory of the document, with delimited
\* blocks and tables that have or lack their closing delimiter
RunBlocks ==
    { <<TextLine>>, <<Ifdef(NameY), TextLine, Endif(<<>>)>>, <<Ifdef(NameY)>>,
      <<Inc(PathX)>> }

InitRun ==
    /\ FreshDocument(Docs(RunBlocks, MaxBlocks), {<<TextLine>>}, {PathM})
    /\ IdlePending
    /\ IdleCallout
    /\ IdleTable
    /\ IdleConfig
    /\ IdleLex
    /\ IdleExit
    /\ doc_attributes = EmptyDict
    /\ conf_attrs = EmptyDict
    /\ cmd_attrs = EmptyDict
    /\ outfile = None
    /\ stage = "start"

NextRun ==
    \/ StartRun
    \/ \E of \in Outfiles : OpenOutfile(of)
    \/ Open
    \/ WriterOpen
    \/ Read(None)
    \/ \E c \in BOOLEAN : DelimitedBlockTranslate("blockdef-listing", FALSE, <<>>, c)
    \/ \E c \in BOOLEAN : TableTranslate(c, PlainTable)
    \/ \E t \in BlockTitles : BlockTitleTranslate(t)
    \/ Finish
    \/ Fail
    \/ Interrupt

SpecRun == InitRun /\ [][NextRun]_vars

\* Documents of sections, paragraphs and sidebars of every document type,
\* for a backend that demands content in a section and for one that does not
Doctypes == {"article", "book", "manpage"}
Backends == {"xhtml11", "docbook"}
Bodies == { <<>>, <<BodyParagraph>>, <<BodyTitle(2)>>, <<BodyParagraph, BodyTitle(2)>> }

InitStruct ==
    /\ endtags = <<>>
    /\ ids = <<>>
    /\ section_numbers = [l \in Levels |-> 0]
    /\ doc_level = 0
    /\ idprefix = None
    /\ out = <<>>
    /\ doc_done = FALSE
    /\ last = NoTitle
    /\ doctype \in Doctypes
    /\ backend \in Backends
    /\ diagnostics = {}
    /\ attrs = ReaderAttrs
    /\ pieces = <<>>
    /\ line = <<>>
    /\ subst = NotCalled
    /\ files = Files(<<>>, <<>>)
    /\ infile = PathM
    /\ safe_mode = FALSE
    /\ reader = NewReader
    /\ opened = <<>>
    /\ nopen = 0
    /\ has_errors = FALSE
    /\ executed = <<>>
    /\ exception = ""
    /\ returned = <<>>
    /\ unclosed = 0
    /\ lastop = NoOp
    /\ phase = "translating"
    /\ IdlePending
    /\ IdleCallout
    /\ IdleTable
    /\ IdleConfig
    /\ IdleLex
    /\ IdleExit
    /\ doc_attributes = EmptyDict
    /\ conf_attrs = EmptyDict
    /\ cmd_attrs = EmptyDict
    /\ outfile = Some(Stdout)
    /\ stage = "translate"

NextStruct ==
    \/ DocumentTranslate
    \/ \E L \in 0..3 : SectionTranslate(L, <<"a">>, FALSE, None)
    \/ ParagraphTranslate(<<>>)
    \/ \E b \in Bodies : SectionBodyBlock(b)
    \/ DocumentEnd

SpecStruct == InitStruct /\ [][NextStruct]_vars

\* Tables: the lines | a | b, | c | 2*d, | c 2*| d, 2*| a, | a2*| b,
\* |a\|b and |a, alone or two of them
TableLines ==
    { <<Cell(1, <<" ", "a", " ">>), Cell(1, <<" ", "b">>)>>,
      <<Cell(1, <<" ", "c", " ">>), Cell(1, <<" ", "2", "*", "d">>)>>,
      <<Cell(1, <<" ", "c", " ">>), Cell(2, <<" ", "d">>)>>,
      <<Cell(2, <<" ", "a">>)>>,
      <<Cell(1, <<" ", "a">>), Cell(2, <<" ", "b">>)>>,
      <<Cell(1, <<"a", "\\">>), Cell(1, <<"b">>)>>,
      <<Cell(1, <<"a">>)>> }

TableSources ==
    {<<l>> : l \in TableLines} \cup {<<l, m>> : l \in TableLines, m \in TableLines}

\* Documents of text, attribute lists and includes of a file of them, the
\* same file twice among them
AttrLine == Line("attrlist", <<"x">>, 0)

LexBlocks ==
    { <<TextLine>>, <<BlankLine>>, <<AttrLine>>, <<Inc(PathA)>>,
      <<Inc(PathA), Inc(PathA)>> }

LexIncludedFiles == { <<TextLine>>, <<AttrLine>>, <<AttrLine, TextLine>> }

InitLex == InitDocument(Docs(LexBlocks, MaxBlocks), LexIncludedFiles, {PathM})

NextLex ==
    \/ Open
    \/ LexNext
    \/ ElementRead

SpecLex == InitLex /\ [][NextLex]_vars

\* Documents of lines that several recognizers accept: a title that is
\* also the delimiter of a block, the delimiter of a block that is skipped,
\* a block title that is also a table, a line that no paragraph accepts
TitleLine == Accepted(<<"Title", "DelimitedBlock", "Paragraph">>)
SkipLine == Accepted(<<"SkipBlock", "Paragraph">>)
DelimiterLine == Accepted(<<"DelimitedBlock", "Paragraph">>)
DotLine == Accepted(<<"Table", "BlockTitle", "List", "Paragraph">>)
EntryLine == Accepted(<<"List", "AttributeEntry", "Paragraph">>)
OddLine == Accepted(<<>>)

OrderBlocks ==
    { <<TextLine>>, <<BlankLine>>, <<AttrLine>>, <<TitleLine>>, <<SkipLine>>,
      <<DelimiterLine>>, <<DotLine>>, <<EntryLine>>, <<OddLine>>,
      <<SkipLine, TextLine, SkipLine>>, <<Inc(PathA)>>, <<Inc(PathA), Inc(PathA)>> }

OrderIncludedFiles == { <<SkipLine>>, <<DotLine, BlankLine>>, <<AttrLine>> }

InitOrder == InitDocument(Docs(OrderBlocks, MaxBlocks), OrderIncludedFiles, {PathM})

SpecOrder == InitOrder /\ [][NextLex]_vars

\* reader.read_until(pattern, same_file), as Paragraph.translate and
\* DelimitedBlock.translate call it
ReadUntil(pattern, same_file) ==
    /\ phase = "reading"
    /\ stage = "idle"
    /\ \E r \in { read_until(WorldNow, pattern, same_file, RecursionLimit) } :
          /\ Commit(r)
          /\ phase' = IF r.exc # "" THEN "failed" ELSE phase
          /\ call' = Call("read_until", 0, pattern, same_file, WorldNow, r)
    /\ UNCHANGED <<files, infile, safe_mode, returned, lastop, prev_element, prev_cursor, lex>>
    /\ UNCHANGED <<varsSection, varsAttrs, varsPending, varsRun, varsCallout, varsExit,
                   varsTable, varsConfig>>

\* Documents of text, of delimiters and of includes of a file that holds
\* them: lines are read one by one and up to a delimiter or to the end of
\* a paragraph
UntilBlocks ==
    { <<TextLine>>, <<BlankLine>>, <<DelimiterLine>>, <<Inc(PathA)>>,
      <<DelimiterLine, Inc(PathA)>> }

UntilIncludedFiles ==
    { <<TextLine>>, <<DelimiterLine>>, <<TextLine, DelimiterLine>>,
      <<DelimiterLine, TextLine>> }

InitUntil ==
    /\ InitDocument(Docs(UntilBlocks, MaxBlocks), UntilIncludedFiles, {PathM})
    /\ ~safe_mode

NextUntil ==
    \/ Open
    \/ Read(None)
    \/ ReadUntil("paragraph", FALSE)
    \/ ReadUntil("DelimitedBlock", TRUE)

SpecUntil == InitUntil /\ [][NextUntil]_vars

\* Documents without includes: list items, lines of +, text, attribute
\* lists, delimiters and blank lines
ItemLine == Line("item", <<"i">>, 0)
PlusLine == Line("plus", <<"+">>, 0)

ListBlocks ==
    { <<ItemLine>>, <<ItemLine, PlusLine>>, <<ItemLine, TextLine, PlusLine>>, <<TextLine>>,
      <<AttrLine>>, <<BlankLine>>, <<DelimiterLine>>, <<SkipLine>>, <<PlusLine>> }

InitList == InitDocument(Docs(ListBlocks, MaxBlocks), { <<TextLine>> }, {PathM})

SpecList == InitList /\ [][NextLex]_vars

\* The interpreter runs the next call while the translation is not over:
\* Lex.next() and next.translate() in the loop of Section.translate_body,
\* and reader.open(infile) first, which is due as long as phase = "start"
\* (the last conjunct is WF_vars(Open) with ENABLED <<Open>>_vars written
\* as its guard)
SpecListLive ==
    /\ SpecList
    /\ WF_vars(LexNext)
    /\ WF_vars(ElementRead)
    /\ ([]<>(phase # "start") \/ []<><<Open>>_vars)

\* Documents of text and of includes, one of them with depth=1, of a file
\* that holds an include: lines are peeked and read
MaxAhead == 2

AheadBlocks ==
    { <<TextLine>>, <<AttrLine>>, <<Inc(PathA)>>, <<IncD(PathA, 1)>> }

AheadIncludedFiles == { <<TextLine>>, <<Inc(PathX)>>, <<AttrLine, Inc(PathX)>> }

InitAhead ==
    InitDocument(Docs(AheadBlocks, MaxBlocks), AheadIncludedFiles, {PathM}) /\ ~safe_mode

NextAhead ==
    \/ Open
    \/ Read(None)
    \/ \E n \in 1..MaxAhead : ReadAhead(n)

SpecAhead == InitAhead /\ [][NextAhead]_vars

\* Tables of special characters: the entries of &, < and >, an exchange of
\* two characters, a character dropped beside one that brings it back, and
\* no entry
SpecialcharTables ==
    { [c \in {"&", "<", ">"} |->
          IF c = "&" THEN <<"&", "a", "m", "p", ";">>
          ELSE IF c = "<" THEN <<"&", "l", "t", ";">> ELSE <<"&", "g", "t", ";">>],
      [c \in {"a", "<"} |-> IF c = "a" THEN <<"<">> ELSE <<"a">>],
      [c \in {"a", "<"} |-> IF c = "a" THEN <<>> ELSE <<"a", "<">>],
      EmptyDict }

\* The longest text substituted
MaxText == 3

RECURSIVE Texts(_, _)
Texts(alphabet, n) ==
    IF n = 0 THEN { <<>> }
    ELSE Texts(alphabet, n - 1)
            \cup { Append(t, c) : t \in Texts(alphabet, n - 1), c \in alphabet }

InitSpecial ==
    /\ IdleSection /\ IdleAttrs /\ QuietReader
    /\ IdlePending /\ IdleRun /\ IdleCallout /\ IdleExit /\ IdleTable /\ IdleLex
    /\ specialchars \in SpecialcharTables
    /\ special = NoSpecial
    /\ sections = NoSections
    /\ expanded = <<>>

NextSpecial ==
    \E s \in Texts({"&", "<", "a", ";"}, MaxText) : SubsSpecialchars(s)

SpecSpecial == InitSpecial /\ [][NextSpecial]_vars

\* Configurations of three sections whose lines are text and template
\* macros that name each other, themselves and a section that is missing
TextConf == ConfLine("text", "t")
Template(name) == ConfLine("template", name)

SectionBodies ==
    { <<TextConf>>, <<Template("a")>>, <<Template("b")>>, <<Template("c")>>,
      <<TextConf, Template("b")>>, <<Template("z")>> }

InitTemplates ==
    /\ IdleSection /\ IdleAttrs /\ QuietReader
    /\ IdlePending /\ IdleRun /\ IdleCallout /\ IdleExit /\ IdleTable /\ IdleLex
    /\ specialchars = EmptyDict
    /\ special = NoSpecial
    /\ \E a \in SectionBodies, b \in SectionBodies, c \in SectionBodies :
          sections = [names |-> <<"a", "b", "c">>,
                      lines |-> [n \in {"a", "b", "c"} |->
                                    IF n = "a" THEN a ELSE IF n = "b" THEN b ELSE c]]
    /\ expanded = <<>>

NextTemplates == ExpandAllTemplates

SpecTemplates == InitTemplates /\ [][NextTemplates]_vars

\* A document being translated, out of safe mode
InitPending == InitSafe /\ ~safe_mode

NextTable ==
    \/ \E src \in TableSources : TableTranslate(TRUE, src)

SpecTable == InitPending /\ [][NextTable]_vars

\* Listings with callouts followed by callout lists
NextCallout ==
    \/ \E i \in 1..(MaxItems + 1) : CalloutAdd(i)
    \/ \E t \in {"callout", "numbered"}, n \in 1..MaxItems : ListTranslate(t, n)

SpecCallout == InitPending /\ [][NextCallout]_vars

\* Attribute lists and block titles before block elements and sections
MacroLines == { <<"m">>, <<"{", "y", "}">> }

NextPending ==
    \/ \E a \in AttributeLists : a[2] # <<"_", "a">> /\ AttributeListTranslate(a[1], a[2])
    \/ \E t \in BlockTitles : BlockTitleTranslate(t)
    \/ ParagraphTranslate(<<>>)
    \/ DelimitedBlockTranslate("blockdef-listing", FALSE, <<>>, TRUE)
    \/ ListTranslate("bulleted", 1)
    \/ TableTranslate(TRUE, PlainTable)
    \/ \E t \in MacroLines, known \in BOOLEAN : BlockMacroTranslate(t, known)
    \/ \E e \in ExplicitIds : SectionTranslate(1, <<"a">>, FALSE, e)

SpecPending == InitPending /\ [][NextPending]_vars

\* ------------------------------------------------------------------------
\* Properties of the reader and of the safe mode
\* ------------------------------------------------------------------------

\* The directory of the document
DocDir == IF infile = Stdin THEN Cwd ELSE dirname(infile)

\* C2: in safe mode every file opened, by an include or include1 macro of
\* a document read from a file or from stdin, at any nesting depth, or by an
\* {include:path} attribute, is the document itself or a file inside the
\* directory of the document.
C2_SafeIncludesStayInside ==
    safe_mode =>
        \A i \in 1..Len(opened) :
            opened[i] = infile \/ file_in_components(opened[i], DocDir)

\* C3: while safe mode is on no operation evaluates host code or starts a
\* subprocess, be it a system attribute, a system block macro or the filter
\* of a paragraph, of a delimited block or of a table cell.
C3_SafeModeRunsNothing == safe_mode => executed = <<>>

ResourceErrors == {"RuntimeError", "IOError"}

\* C4: include nesting is bounded: the include depth never passes the
\* maximum depth and reading never ends in an exception of the interpreter
\* or of the operating system, whatever file includes itself.
C4_IncludeNestingBounded ==
    /\ reader.current_depth <= reader.max_depth
    /\ exception \notin ResourceErrors

\* C5: no line is returned, and the input does not end normally, while a
\* conditional that was false is still waiting for its endif.
C5_SkipUntilEndif ==
    phase \in {"reading", "eof"} => unclosed = 0

\* ------------------------------------------------------------------------
\* Properties of the pending attribute list and block title
\* ------------------------------------------------------------------------

\* The block elements and the section
ElementKinds == {"paragraph", "list", "delimited", "table", "blockmacro", "section"}

\* The step is the translate of an element of that kind
Translates(kind) ==
    IF kind = "section" THEN NSections' # NSections
    ELSE lastop' # lastop /\ lastop'.kind = kind

GivenTitle == IF TruthyText(btitle) THEN btitle ELSE None

C12_WitnessSection ==
    /\ element.kind = "section"
    /\ element.attrs # EmptyDict
    /\ TruthyText(btitle)

\* ------------------------------------------------------------------------
\* Properties of the document attributes
\* ------------------------------------------------------------------------

\* C13: once init_attrs has run, every name given with -a has its
\* command-line value in document.attributes.
C13_CommandLineWins ==
    stage \in {"conf", "translate"} =>
       \A k \in DOMAIN cmd_attrs :
          k \in DOMAIN doc_attributes /\ doc_attributes[k] = cmd_attrs[k]

\* ------------------------------------------------------------------------
\* Properties of the callout map
\* ------------------------------------------------------------------------

\* C14: at callout-list close every list index that is a key of comap is
\* at most the number of items of the list, and every callout index stored
\* in comap is one that add returned since the previous list close.
C14_CalloutMapAtClose ==
    \A i \in DOMAIN closed.comap :
       /\ i <= closed.items
       /\ \A k \in 1..Len(closed.comap[i]) : closed.comap[i][k] \in closed.observed

\* ------------------------------------------------------------------------
\* Properties of the end of the run
\* ------------------------------------------------------------------------

\* An exception other than the interrupt ended asciidoc()
Aborted == exception \notin {"", "KeyboardInterrupt"}

\* C15 as stated: the exit code is 1 exactly when document.has_errors is
\* set at the end of the run.
C15_ExitOneIffHasErrors ==
    stage = "exited" => (exit_code = 1 <=> has_errors)

\* C15: the exit code is 1 exactly when document.has_errors is set at the
\* end of the run or an exception other than the interrupt ended it; a run
\* with warnings alone exits with 0.
C15_ExitCode ==
    stage = "exited" =>
       /\ exit_code = 1 <=> (has_errors \/ Aborted)
       /\ exit_code \in {0, 1}
       /\ (has_warnings /\ ~has_errors /\ ~Aborted) => exit_code = 0

\* A run that recorded an error and read its whole input has exited
C15_Witness ==
    /\ stage = "exited"
    /\ has_errors
    /\ exception = ""
    /\ exit_code = 1

\* A run that only warned has exited
C15_WitnessWarning ==
    /\ stage = "exited"
    /\ has_warnings
    /\ ~has_errors
    /\ exit_code = 0

\* C16: a run in which an ifdef was left without its endif, a delimited
\* block or table was left without its closing delimiter, or an include of
\* a file outside the directory of the document was refused, is aborted and
\* leaves no output file.  In SpecRun has_errors is set by the second and
\* the third of these and by nothing else.
C16_FatalConditionsAbort ==
    (stage = "exited" /\ exception # "KeyboardInterrupt"
        /\ (has_errors \/ exception = "missing endif"))
       => (Aborted /\ ~on_disk)

\* C17: a run ended by an interrupt leaves no output file.
C17_InterruptLeavesNoOutput ==
    (stage = "exited" /\ exception = "KeyboardInterrupt") => ~on_disk

\* ------------------------------------------------------------------------
\* Properties of the structural checks
\* ------------------------------------------------------------------------

\* C18: once a section title came more than one level below the current
\* level, a manpage came without its title, a title came inside the body
\* of a sidebar or a section came empty for the docbook backend, has_errors
\* is set and no exception ended the translation.
C18_StructuralErrorsRecorded ==
    diagnostics \cap {OutOfSequence, ManpageTitle, TitleInBody, EmptySection} # {}
       => (has_errors /\ exception = "" /\ phase # "failed")

\* ------------------------------------------------------------------------
\* Properties of the tables
\* ------------------------------------------------------------------------

\* The cells a line of a table source stands for: each text as many times
\* as its separator says; more says whether another line follows, whose
\* first separator ends the last cell after the line break
RECURSIVE ExpectedRowCells(_, _)
ExpectedRowCells(cells, more) ==
    IF cells = <<>> THEN <<>>
    ELSE [k \in 1..Head(cells).n |->
             Head(cells).text \o (IF Len(cells) = 1 /\ more THEN <<"\n">> ELSE <<>>)]
            \o ExpectedRowCells(Tail(cells), more)

RECURSIVE ExpectedTableCells(_)
ExpectedTableCells(source) ==
    IF source = <<>> THEN <<>>
    ELSE ExpectedRowCells(Head(source), Len(source) > 1) \o ExpectedTableCells(Tail(source))

RECURSIVE FlattenRows(_)
FlattenRows(rows) == IF rows = <<>> THEN <<>> ELSE Head(rows) \o FlattenRows(Tail(rows))

\* No cell of the source ends with a backslash, which escapes the
\* separator after it
NoEscape(source) ==
    \A i \in 1..Len(source) : \A j \in 1..Len(source[i]) :
       source[i][j].text = <<>> \/ source[i][j].text[Len(source[i][j].text)] # "\\"

\* The table of the lines | a | b and | c | 2*d
ExampleTable ==
    << <<Cell(1, <<" ", "a", " ">>), Cell(1, <<" ", "b">>)>>,
       <<Cell(1, <<" ", "c", " ">>), Cell(1, <<" ", "2", "*", "d">>)>> >>

\* The texts of the cells of the rows without the white space around them
StrippedRows(rows) ==
    [i \in 1..Len(rows) |->
       [j \in 1..Len(rows[i]) |-> Strip(Strip(rows[i][j], "\n"), " ")]]

\* C19 as stated: a cell after a separator with the prefix N* comes N
\* times, the column count is the number of cells of the first line, the
\* rows hold that many cells, and the lines | a | b and | c | 2*d give two
\* rows of which the second holds c, d, d.
C19_PsvExample ==
    table.source = ExampleTable =>
       /\ Len(table.rows) = 2
       /\ StrippedRows(table.rows)[2] = << <<"c">>, <<"d">>, <<"d">> >>

\* C19: a cell after a separator with the prefix N* comes N times, the
\* column count is the number of cells of the first line, every row but
\* the last holds that many cells and the last holds at most that many;
\* the lines | a | b and | c | 2*d give two rows of which the second holds
\* c and 2*d, since there the 2* stands before no separator.
C19_PsvCells ==
    (table.source # <<>> /\ NoEscape(table.source)) =>
       /\ FlattenRows(table.rows) = ExpectedTableCells(table.source)
       /\ table.colcount = Len(ExpectedRowCells(table.source[1], FALSE))
       /\ \A i \in 1..Len(table.rows) :
             /\ Len(table.rows[i]) \in 1..table.colcount
             /\ i < Len(table.rows) => Len(table.rows[i]) = table.colcount
       /\ table.source = ExampleTable =>
             StrippedRows(table.rows) =
                << << <<"a">>, <<"b">> >>, << <<"c">>, <<"2", "*", "d">> >> >>

\* A table whose second line holds a separator with the prefix 2* was
\* translated: its cell comes twice in the second row
C19_Witness ==
    /\ Len(table.source) = 2
    /\ table.source[2] = <<Cell(1, <<" ", "c", " ">>), Cell(2, <<" ", "d">>)>>
    /\ table.colcount = 3
    /\ StrippedRows(table.rows)[2] = << <<"c">>, <<"d">>, <<"d">> >>

\* ------------------------------------------------------------------------
\* Properties of the lexer
\* ------------------------------------------------------------------------

\* C20: an answer Lex.next() takes from its cache is the answer the
\* recognizers give on the line that is next.
C20_CacheMatchesFresh ==
    lex.cached => lex.answer = lex.fresh

\* The order of the recognizers
RecognizerOrder ==
    <<"AttributeEntry", "AttributeList", "Title", "BlockMacro", "List", "DelimitedBlock",
      "OldTable", "Table", "BlockTitle">>

\* The first recognizer of the order that accepts the line l, the
\* paragraph when none does
FirstAccepting(l) ==
    IF \E i \in 1..Len(RecognizerOrder) : isnext(RecognizerOrder[i], l)
    THEN RecognizerOrder[CHOOSE i \in 1..Len(RecognizerOrder) :
                           /\ isnext(RecognizerOrder[i], l)
                           /\ \A j \in 1..(i - 1) : ~isnext(RecognizerOrder[j], l)]
    ELSE "Paragraph"

\* C21: what Lex.next() answers is the first recognizer, of attribute
\* entry, attribute list, title, block macro, list, delimited block, old
\* table, table and block title, that accepts the line that is next after
\* the blank lines, the paragraph when none does and nothing at the end
\* of the input, and never a delimited block with the option skip.
C21_FirstRecognizer ==
    /\ lex.answer # "none" =>
          /\ ~isnext("SkipBlock", lex.line)
          /\ lex.answer = FirstAccepting(lex.line)
    /\ (phase = "eof" /\ lastop = NoOp) => lex.answer = "none"

\* C21 without the cache: an answer that the recognizers gave is the first
\* of the order that accepts the next line, which starts no skipped block
C21_FreshAnswer ==
    (lex.answer # "none" /\ ~lex.cached) =>
          /\ ~isnext("SkipBlock", lex.line)
          /\ lex.answer = FirstAccepting(lex.line)

\* ------------------------------------------------------------------------
\* Properties of the calls that read ahead
\* ------------------------------------------------------------------------

\* The lines of the cursors cs
LinesOf(cs) == [i \in 1..Len(cs) |-> cs[i].line]

\* The lines that read() returns, call after call
rest(w, fuel) == LinesOf(rest_cursors(w, fuel))

\* The first n of the lines s, all of them when they are fewer
FirstLines(s, n) == SubSeq(s, 1, IF Len(s) < n THEN Len(s) ELSE n)

\* C22: read_ahead(n) returns the next n lines, fewer at the end of the
\* input, and leaves the cursor and the lines that the next calls of
\* read() return as they were.
C22_ReadAheadLeavesReader ==
    (call.op = "read_ahead" /\ call.exc = "") =>
       /\ call.result = FirstLines(rest(call.before, RecursionLimit), call.n)
       /\ call.after.rd.cursor = call.before.rd.cursor
       /\ rest(call.after, RecursionLimit) = rest(call.before, RecursionLimit)

\* Whether the line of the cursor c ends the read_until of the call
Ends(c) ==
    /\ call.same_file => c.fname = call.before.rd.cursor.fname
    /\ stops(c.line, call.pattern)

\* How many of the cursors cs come before the first that ends the
\* read_until of the call, all of them when none does
Before(cs) ==
    IF \E i \in 1..Len(cs) : Ends(cs[i])
    THEN (CHOOSE i \in 1..Len(cs) : Ends(cs[i]) /\ \A j \in 1..(i - 1) : ~Ends(cs[j])) - 1
    ELSE Len(cs)

\* C23: read_until(pattern, same_file) returns the lines before the first
\* line that the pattern matches, all the lines left when it matches none,
\* the matching line stays the next line and the cursor is on the last
\* line returned; with same_file a matching line of another file than
\* the file of the cursor at the call is returned with the others.
C23_ReadUntil ==
    (call.op = "read_until" /\ call.exc = "") =>
       \E cs \in { rest_cursors(call.before, RecursionLimit) } :
          /\ call.result = LinesOf(SubSeq(cs, 1, Before(cs)))
          /\ rest(call.after, RecursionLimit) = LinesOf(SubSeq(cs, Before(cs) + 1, Len(cs)))
          /\ Before(cs) < Len(cs) =>
                call.after.rd.cursor = IF Before(cs) = 0 THEN call.before.rd.cursor
                                       ELSE cs[Before(cs)]

\* A read_until with same_file returned the delimiter of an included file
\* among the lines and stopped at the delimiter of the file it was called in
C23_Witness ==
    /\ call.op = "read_until" /\ call.exc = "" /\ call.same_file
    /\ \E i \in 1..Len(call.result) : call.result[i] = DelimiterLine
    /\ rest(call.after, RecursionLimit) # <<>>
    /\ Head(rest(call.after, RecursionLimit)) = DelimiterLine

\* ------------------------------------------------------------------------
\* Properties of the configuration
\* ------------------------------------------------------------------------

\* Whether the table chars changes a character of the text t
Changes(chars, t) == \E i \in 1..Len(t) : t[i] \in DOMAIN chars /\ chars[t[i]] # <<t[i]>>

\* C24 as stated: a second specialcharacters pass changes nothing.
C24_Idempotent ==
    special.called => special.twice = special.once

\* C24: a second specialcharacters pass leaves the result of the first as
\* it is when the result holds no character that the table changes, and
\* only then when the table has no empty replacement; with the entries of
\* &, < and > it changes the result for every text that holds one of them.
C24_SecondPass ==
    special.called =>
       /\ ~Changes(specialchars, special.once) => special.twice = special.once
       /\ ((\A c \in DOMAIN specialchars : specialchars[c] # <<>>)
              /\ Changes(specialchars, special.once)) => special.twice # special.once
       /\ ("&" \in DOMAIN specialchars /\ Changes(specialchars, special.s)) =>
              special.twice # special.once

\* The text & went through the table of &, < and >: &amp; after one pass,
\* &amp;amp; after two
C24_Witness ==
    /\ special.called
    /\ special.s = <<"&">>
    /\ special.once = <<"&", "a", "m", "p", ";">>
    /\ special.twice = <<"&", "a", "m", "p", ";", "a", "m", "p", ";">>

\* C25: the sections after a second expand_all_templates are the sections
\* after the first.
C25_ExpandTwice ==
    Len(expanded) = 2 => expanded[2] = expanded[1]

\* ------------------------------------------------------------------------
\* Properties of the stack of section end tags
\* ------------------------------------------------------------------------

\* The places of the output where the end tag of the section n is written
EndTagsOf(n) == {q \in 1..Len(out) : out[q].kind = "etag" /\ out[q].sect = n}

\* C26: the levels of the stack of end tags grow strictly from the bottom
\* to the top; once Document.translate has returned the stack is empty,
\* the end tag of every section was written once, after its start tag,
\* and the end tag of a section that started inside another one was
\* written before the end tag of that one.
C26_EndTagStack ==
    /\ \A i \in 1..Len(endtags), j \in 1..Len(endtags) :
          i < j => endtags[i][1] < endtags[j][1]
    /\ \A q \in 1..Len(out) :
          out[q].kind = "etag" =>
             /\ EndTagsOf(out[q].sect) = {q}
             /\ \E p \in 1..(q - 1) : out[p].kind = "stag" /\ out[p].sect = out[q].sect
    /\ doc_done =>
          /\ endtags = <<>>
          /\ \A p \in 1..Len(out) :
                out[p].kind = "stag" =>
                   \E q \in (p + 1)..Len(out) :
                      /\ EndTagsOf(out[p].sect) = {q}
                      /\ \A r \in (p + 1)..(q - 1) :
                            out[r].kind = "stag" =>
                               \E t \in (r + 1)..(q - 1) : EndTagsOf(out[r].sect) = {t}

\* Document.translate returned after sections of the levels 1, 2 and 3,
\* each inside the one before: their end tags come in the order 3, 2, 1
C26_Witness ==
    /\ doc_done
    /\ Len(out) = 6
    /\ \A p \in 1..3 : out[p].kind = "stag" /\ out[p].level = p
    /\ \A q \in 4..6 : out[q].kind = "etag" /\ out[q].sect = 7 - q

\* ------------------------------------------------------------------------
\* Properties of the loop that translates the elements, and of lists
\* ------------------------------------------------------------------------

EndsContinued(d) ==
    \E k \in 2..Len(d) :
       /\ d[1].kind = "item"
       /\ \A j \in 1..Len(d) : d[j].kind \in {"item", "text", "plus", "blank"}
       /\ d[k].kind = "plus"
       /\ \A j \in (k + 1)..Len(d) : d[j].kind = "blank"
       /\ \/ d[k - 1].kind = "item"
          \/ k > 2 /\ d[k - 1].kind = "text" /\ d[k - 2].kind = "item"

\* C28: when the line of + that continues a list item is the last line
\* of the input that is not blank, the translation ends without an
\* exception and the last tags written are the end tag of the item and
\* the end tag of the list.
C28_ContinuationAtEnd ==
    (EndsContinued(files[infile]) /\ phase \in {"eof", "failed"}) =>
       /\ exception = ""
       /\ Len(out) >= 2
       /\ out[Len(out) - 1].kind = "/item"
       /\ out[Len(out)].kind = "/list"

\* ------------------------------------------------------------------------
\* Properties of the conditional depth of the reader and of callout ids
\* ------------------------------------------------------------------------

\* C29: the conditional nesting depth of the reader is never negative, and
\* a read that met an endif when no conditional was open has raised the
\* error 'mismatched macro'.
C29_DepthNeverNegative ==
    /\ reader.depth >= 0
    /\ ( /\ Len(files[infile]) > 0
          /\ files[infile][1].kind = "endif"
          /\ (returned # <<>> \/ phase \in {"eof", "failed"}) ) =>
          exception = "mismatched macro"

\* The positions of the calls of that kind among the calls of the callout map
CallsOf(op) == {k \in 1..Len(callouts) : callouts[k].op = op}

\* The last close of a callout list before the call p, 0 when there is none
CloseBefore(p) ==
    IF \E c \in CallsOf("listclose") : c < p
    THEN CHOOSE c \in CallsOf("listclose") :
            c < p /\ \A d \in CallsOf("listclose") : d < p => d <= c
    ELSE 0

\* The ids that a text of ids with spaces between them lists
IdsIn(s) ==
    { SubSeq(s, a, b) : <<a, b>> \in
        { ab \in (1..Len(s)) \X (1..Len(s)) :
            /\ ab[1] <= ab[2]
            /\ \A j \in ab[1]..ab[2] : s[j] # " "
            /\ ab[1] = 1 \/ s[ab[1] - 1] = " "
            /\ ab[2] = Len(s) \/ s[ab[2] + 1] = " " } }

\* C30: the ids that CalloutMap.add returned over the run are pairwise
\* distinct; listnumber is one more than the number of list closes and
\* calloutindex the number of calls of add since the last close; and every
\* id that calloutids(i) listed for the item i of a callout list was
\* returned by a call add(i) made since the close before.
C30_CalloutIds ==
    /\ \A j, k \in CallsOf("add") : j # k => callouts[j].coid # callouts[k].coid
    /\ listnumber = 1 + Cardinality(CallsOf("listclose"))
    /\ calloutindex =
          Cardinality({k \in CallsOf("add") : k > CloseBefore(Len(callouts) + 1)})
    /\ \A p \in CallsOf("listclose") :
          \A i \in DOMAIN callouts[p].coids :
             \A id \in IdsIn(callouts[p].coids[i]) :
                \E k \in CallsOf("add") :
                   /\ CloseBefore(p) < k
                   /\ k < p
                   /\ callouts[k].listindex = i
                   /\ callouts[k].coid = id

\* A callout list was closed whose first item had two callouts, and a
\* callout of the next list got the id CO2-1
C30_Witness ==
    \E p \in CallsOf("listclose"), q \in CallsOf("add") :
       /\ p < q
       /\ Cardinality(IdsIn(callouts[p].coids[1])) = 2
       /\ callouts[q].coid = <<"C", "O", "2", "-", "1">>

====
